---- MODULE Spec2Model ----
(***************************************************************************)
(* Model of the game validation engine of the sensor game hub:             *)
(*   GameValidator.validateGame          (docs/CORE_SOURCE_CODE.md)        *)
(*   InteractiveGameGenerator.validateGameCode (server/...Generator.js)    *)
(*   InteractiveGameGenerator.generateFinalGame (validation and save)      *)
(*   GameValidator.generateReport                                          *)
(*   InteractiveGameGenerator.startNewSession, processUserMessage,         *)
(*   generateFinalGame and saveGameToFiles on the session map              *)
(*                                                                         *)
(* Spec follows one call (validateGame twice in sequence); SpecConcurrent  *)
(* follows two validateGame calls interleaved at their awaits; SpecSession *)
(* follows the session operations, interleaved at their awaits.            *)
(*                                                                         *)
(* An artifact (index.html plus the optional game.json next to it) is a    *)
(* set of text fragments ("atoms") laid out in the fixed document order    *)
(* DocOrder.  Every regular expression, selector and substring test of the *)
(* code is an operator over that text, written fragment by fragment.       *)
(***************************************************************************)
EXTENDS Integers, Sequences, FiniteSets, TLC

\* ------------------------------------------------------------------ bounds
\* Number of fragments by which an input may differ from a base artifact.
MaxEdits == 1

\* --------------------------------------------------------------- fragments
\* Files next to index.html.
\*   "game.json"  game.json exists and parses
\*   "json.meta"  its JSON carries title and description
FileAtoms == {"game.json", "json.meta"}

\* Markup outside <script>.
\*   "viewport"   <meta name="viewport" content="width=device-width">
\*   "noscale"    ... content holds user-scalable=no (needs "viewport")
\*   the rest:    one DOM element each, named by tag#id
ElementAtoms ==
    {"canvas#game-canvas", "canvas#gameCanvas", "canvas",
     "#session-code-display", "#session-code",
     "#qr-container", "#qr-code", "#myqr"}

MarkupAtoms == {"viewport", "noscale"} \cup ElementAtoms

\* <script src="..."></script> tags.
SrcAtoms == {"src:socket.io", "src:SessionSDK"}

\* Statements of the main inline <script> block, with their text.
\*   "createSession.early"  sdk.createSession();      (placed before the handlers)
\*   "sdkInit"     new SessionSDK({ gameId: 'g', gameType: 'solo' });
\*   "sdkBare"     new SessionSDK({});
\*   "onConnected" sdk.on('connected', () => { begin(); });
\*   "onConnectedDq" sdk.on("connected", () => { begin(); });
\*   "createSession" sdk.createSession();
\*   "onSessionCreated" sdk.on('session-created', (event) => { show(event); });
\*   "onSensorData" sdk.on('sensor-data', (event) => { handle(event); });
\*   "unwrap"      const data = event.detail || event;
\*   "getContext"  canvas.getContext('2d');
\*   "rAF"         requestAnimationFrame(loop);
\*   "deltaTime"   const deltaTime = now - last;
\*   "isRunningGuard" if (!gameState.isRunning) exit();
\*   "maxmin"      x = Math.max(-1, Math.min(1, x));
\*   "QRGen"       QRCodeGenerator.generate(url);
\*   "try"         try {
\*   "catch"       } catch (e) { }
\*   "fallback"    showFallback();
\*   "cleanup"     cleanup();
\*   "resize"      window.addEventListener('resize', fit);
\*   "{" , "}"     one stray brace
\*   "sesion", "sensot", "conected"   misspelt identifiers
\*   the genre keywords: one identifier each, spelt as named
TypoAtoms == {"sesion", "sensot", "conected"}

KeywordAtoms ==
    {"gravity", "friction", "velocity", "speed", "collision", "reflect",
     "Math.sin", "score", "level", "timer", "gameOver"}

MainAtoms ==
    {"createSession.early", "sdkInit", "sdkBare", "onConnected",
     "onConnectedDq", "createSession", "onSessionCreated", "onSensorData",
     "unwrap", "getContext", "rAF", "deltaTime", "isRunningGuard", "maxmin",
     "QRGen", "try", "catch", "fallback", "cleanup", "resize", "{", "}"}
    \cup TypoAtoms \cup KeywordAtoms

\* Statements of a second inline <script> block (the renderer).
\*   "clearRect"  ctx.clearRect(0, 0, w, h);
\*   "fillRect"   ctx.fillRect(x, y, 4, 4);
\*   "srcAssign"  img.src='ball.png';
AuxAtoms == {"clearRect", "fillRect", "srcAssign"}

HtmlAtoms == MarkupAtoms \cup SrcAtoms \cup MainAtoms \cup AuxAtoms

Atoms == FileAtoms \cup HtmlAtoms

\* The order in which the fragments appear in index.html.
DocOrder ==
    << "viewport", "noscale",
       "canvas#game-canvas", "canvas#gameCanvas", "canvas",
       "#session-code-display", "#session-code",
       "#qr-container", "#qr-code", "#myqr",
       "src:socket.io", "src:SessionSDK",
       "createSession.early", "sdkInit", "sdkBare", "onConnected",
       "onConnectedDq", "createSession", "onSessionCreated", "onSensorData",
       "unwrap", "getContext", "rAF", "deltaTime", "isRunningGuard",
       "maxmin", "QRGen", "try", "catch", "fallback", "cleanup", "resize",
       "{", "}", "sesion", "sensot", "conected",
       "gravity", "friction", "velocity", "speed", "collision", "reflect",
       "Math.sin", "score", "level", "timer", "gameOver",
       "clearRect", "fillRect", "srcAssign" >>

\* --------------------------------------------------------------- helpers
None == "null"
Undefined == "undefined"

Max(a, b) == IF a >= b THEN a ELSE b
Min(a, b) == IF a <= b THEN a ELSE b

\* Math.round(num / den * weight) for non-negative operands (half rounds up).
RoundShare(num, den, weight) == (2 * num * weight + den) \div (2 * den)

\* The fragments of S as text, in document order.
TextOf(S) == SelectSeq(DocOrder, LAMBDA x : x \in S)

Has(text, S) == \E i \in 1..Len(text) : text[i] \in S

\* Index of the first fragment of text that lies in S (0 when there is none).
FirstIndex(text, S) ==
    IF Has(text, S)
    THEN CHOOSE i \in 1..Len(text) :
            /\ text[i] \in S
            /\ \A j \in 1..(i - 1) : text[j] \notin S
    ELSE 0

RECURSIVE SumOver(_, _)
SumOver(f, text) ==
    IF text = << >> THEN 0 ELSE f[Head(text)] + SumOver(f, Tail(text))

RECURSIVE Flatten(_)
Flatten(seqs) ==
    IF seqs = << >> THEN << >> ELSE Head(seqs) \o Flatten(Tail(seqs))

\* "{" and "}" characters contained in each fragment's text.
OpenBracesIn ==
    [x \in Atoms |->
        CASE x \in {"sdkInit", "sdkBare", "onConnected", "onConnectedDq",
                    "onSessionCreated", "onSensorData", "try", "catch", "{"} -> 1
          [] OTHER -> 0]

CloseBracesIn ==
    [x \in Atoms |->
        CASE x \in {"sdkInit", "sdkBare", "onConnected", "onConnectedDq",
                    "onSessionCreated", "onSensorData", "}"} -> 1
          [] x = "catch" -> 2
          [] OTHER -> 0]

\* ------------------------------------------------------------ rule registry
\* document.querySelector(selector): the elements a selector matches.
SelectorMatches(selector) ==
    CASE selector = "canvas#game-canvas" -> {"canvas#game-canvas"}
      [] selector = "canvas#gameCanvas" -> {"canvas#gameCanvas"}
      [] selector = "canvas" -> {"canvas#game-canvas", "canvas#gameCanvas", "canvas"}
      [] selector = "#session-code-display" -> {"#session-code-display"}
      [] selector = "#session-code" -> {"#session-code"}
      [] selector = "#qr-container" -> {"#qr-container"}
      [] selector = "#qr-code" -> {"#qr-code"}
      [] selector = "[id*=qr]" -> {"#qr-container", "#qr-code", "#myqr"}
      [] OTHER -> {}

\* A variant of requiredElements whose QR rule is marked optional.
requiredElementsOptionalQR ==
    << [selectors |-> <<"canvas#game-canvas", "canvas#gameCanvas", "canvas">>,
        name |-> "game canvas", optional |-> FALSE],
       [selectors |-> <<"#session-code-display", "#session-code">>,
        name |-> "session code display", optional |-> FALSE],
       [selectors |-> <<"#qr-container", "#qr-code", "[id*=qr]">>,
        name |-> "QR code container", optional |-> TRUE] >>

\* this.validationRules.requiredElements
requiredElements ==
    << [selectors |-> <<"canvas#game-canvas", "canvas#gameCanvas", "canvas">>,
        name |-> "game canvas", optional |-> FALSE],
       [selectors |-> <<"#session-code-display", "#session-code">>,
        name |-> "session code display", optional |-> FALSE],
       [selectors |-> <<"#qr-container", "#qr-code", "[id*=qr]">>,
        name |-> "QR code container", optional |-> FALSE] >>

\* this.validationRules.requiredScripts, as the <script src> tag each names.
requiredScripts == << "src:socket.io", "src:SessionSDK" >>

\* this.validationRules.requiredPatterns: each expression with the
\* fragments whose text it matches, and its name in getPatternName.
requiredPatterns ==
    << [re |-> "new SessionSDK({", hits |-> {"sdkInit", "sdkBare"},
        name |-> "SessionSDK init"],
       [re |-> "sdk.on('connected'", hits |-> {"onConnected"},
        name |-> "connected listener"],
       [re |-> "sdk.on('session-created'", hits |-> {"onSessionCreated"},
        name |-> "session-created listener"],
       [re |-> "sdk.on('sensor-data'", hits |-> {"onSensorData"},
        name |-> "sensor-data listener"],
       [re |-> "event.detail || event", hits |-> {"unwrap"},
        name |-> "CustomEvent pattern"],
       [re |-> "createSession()", hits |-> {"createSession.early", "createSession"},
        name |-> "createSession call"],
       [re |-> "requestAnimationFrame", hits |-> {"rAF"},
        name |-> "animation loop"],
       [re |-> "getContext('2d')", hits |-> {"getContext"},
        name |-> "canvas 2D context"] >>

\* A variant of getPatternName without the lookup table: every pattern is
\* named by its own source text.
getPatternNameSource(pattern) == pattern.re

getPatternName(pattern) == pattern.name

\* this.genreSpecificRules: per genre the requiredPatterns (expression and
\* the fragments it matches, case-insensitively where the code says /i)
\* and the keyFeatures.
BundleKeys == {"arcade", "physics", "cooking", "action", "puzzle", "racing"}

genreSpecificRules ==
    [g \in BundleKeys |->
      CASE g = "arcade" ->
        [requiredPatterns |->
           << [re |-> "/score|point/i", hits |-> {"score"}],
              [re |-> "/level|stage/i", hits |-> {"level"}],
              [re |-> "/timer|time|countdown/i", hits |-> {"timer", "deltaTime"}],
              [re |-> "/collision|hit/i", hits |-> {"collision"}],
              [re |-> "/game.*over|gameOver/i", hits |-> {"gameOver"}] >>,
         keyFeatures |-> << "score system", "level progress", "timer" >>]
      [] g = "physics" ->
        [requiredPatterns |->
           << [re |-> "/gravity/i", hits |-> {"gravity"}],
              [re |-> "/friction/i", hits |-> {"friction"}],
              [re |-> "/velocity|vx.*vy|speed/i", hits |-> {"velocity", "speed"}],
              [re |-> "/collision|bounce|reflect/i", hits |-> {"collision", "reflect"}],
              [re |-> "/Math.(sin|cos|atan2)/", hits |-> {"Math.sin"}] >>,
         keyFeatures |-> << "gravity simulation", "object collision", "inertia" >>]
      [] g = "cooking" ->
        [requiredPatterns |->
           << [re |-> "/stir|mix|shake|flip/i", hits |-> {}],
              [re |-> "/recipe|ingredient|cooking/i", hits |-> {}],
              [re |-> "/timer|time|duration/i", hits |-> {"timer", "deltaTime"}],
              [re |-> "/temperature|heat|cook/i", hits |-> {}],
              [re |-> "/progress|quality|done/i", hits |-> {}] >>,
         keyFeatures |-> << "gesture recognition", "timing system", "cooking progress" >>]
      [] g = "action" ->
        [requiredPatterns |->
           << [re |-> "/combo|score|points/i", hits |-> {"score"}],
              [re |-> "/speed|fast|quick/i", hits |-> {"speed"}],
              [re |-> "/enemy|obstacle|avoid/i", hits |-> {}],
              [re |-> "/powerup|bonus/i", hits |-> {}] >>,
         keyFeatures |-> << "combo system", "score race", "rising difficulty" >>]
      [] g = "puzzle" ->
        [requiredPatterns |->
           << [re |-> "/solve|solution|puzzle/i", hits |-> {}],
              [re |-> "/hint|help|guide/i", hits |-> {}],
              [re |-> "/level|stage|challenge/i", hits |-> {"level"}] >>,
         keyFeatures |-> << "problem solving", "hint system", "staged progress" >>]
      [] OTHER ->
        [requiredPatterns |->
           << [re |-> "/steering|turn|control/i", hits |-> {}],
              [re |-> "/track|road|path/i", hits |-> {}],
              [re |-> "/speed|acceleration|brake/i", hits |-> {"speed"}] >>,
         keyFeatures |-> << "steering", "speed control", "race track" >>]]

\* keywordMap of validateKeyFeatures (keywordMap[feature] || [feature]): the
\* fragments whose lower-cased text contains one of the feature's keywords.
\* A feature without an entry is looked up by its own (Korean) name, which
\* no fragment contains.
keywordMap(feature) ==
    CASE feature = "gravity simulation" -> {"gravity"}
      [] feature = "object collision" -> {"collision"}
      [] feature = "inertia" -> {"velocity"}
      [] feature = "gesture recognition" -> {}
      [] feature = "timing system" -> {"timer"}
      [] feature = "cooking progress" -> {}
      [] feature = "score system" -> {"score"}
      [] feature = "level progress" -> {"level"}
      [] feature = "timer" -> {"timer"}
      [] OTHER -> {}

\* Property names every JavaScript object inherits and that are unchanged
\* by toLowerCase(): genreSpecificRules[name] is truthy for them although
\* the registry has no such bundle.
ObjectPrototypeKeys == {"constructor", "__proto__"}

\* ------------------------------------------------------- GameValidator
\* extractJavaScriptFromHTML: the <script ...>...</script> matches in
\* document order; whole is the text of match[0], body that of match[1].
ScriptBlocks(htmlContent) ==
    LET ext(x) == IF x \in htmlContent
                  THEN << [whole |-> <<x>>, body |-> << >>] >> ELSE << >>
        inline(S) == IF htmlContent \cap S # {}
                     THEN << [whole |-> TextOf(htmlContent \cap S),
                              body |-> TextOf(htmlContent \cap S)] >>
                     ELSE << >>
    IN  ext("src:socket.io") \o ext("src:SessionSDK")
          \o inline(MainAtoms) \o inline(AuxAtoms)

\* match[0].includes('src=')
IncludesSrc(block) == Has(block.whole, SrcAtoms \cup {"srcAssign"})

RECURSIVE JoinBodies(_)
JoinBodies(blocks) ==
    IF blocks = << >> THEN << >>
    ELSE (IF IncludesSrc(Head(blocks)) THEN << >> ELSE Head(blocks).body)
            \o JoinBodies(Tail(blocks))

extractJavaScriptFromHTML(htmlContent) == JoinBodies(ScriptBlocks(htmlContent))

\* Index of the last fragment of text that lies in S (0 when there is none).
LastIndexIn(text, S) ==
    IF Has(text, S)
    THEN CHOOSE i \in 1..Len(text) :
            /\ text[i] \in S
            /\ \A j \in (i + 1)..Len(text) : text[j] \notin S
    ELSE 0

\* A variant of checkEventListenerOrder that compares the last createSession()
\* with the first connected listener.
checkEventListenerOrderLast(jsCode) ==
    LET connectedIndex == FirstIndex(jsCode, {"onConnected", "onConnectedDq"})
        createSessionIndex == LastIndexIn(jsCode, {"createSession.early", "createSession"})
        bad == /\ connectedIndex # 0
               /\ createSessionIndex # 0
               /\ createSessionIndex < connectedIndex
    IN  [isValid |-> ~bad,
         errors |-> IF bad THEN << "createSession() called before connected listener" >>
                    ELSE << >>]

\* checkEventListenerOrder: first sdk.on('connected' (either quote) against
\* the first createSession().
checkEventListenerOrder(jsCode) ==
    LET connectedIndex == FirstIndex(jsCode, {"onConnected", "onConnectedDq"})
        createSessionIndex == FirstIndex(jsCode, {"createSession.early", "createSession"})
        bad == /\ connectedIndex # 0
               /\ createSessionIndex # 0
               /\ createSessionIndex < connectedIndex
    IN  [isValid |-> ~bad,
         errors |-> IF bad THEN << "createSession() called before connected listener" >>
                    ELSE << >>]

\* lastIndex of each /g misspelling expression after the latest
\* basicSyntaxCheck of the instance.
VARIABLE lastIndex

\* RegExp.prototype.test of a /g expression that matches the fragment x:
\* the search starts behind position from; a match moves lastIndex behind
\* it, a failure resets lastIndex to 0.
RegExpTest(jsCode, x, from) ==
    LET later == {i \in (from + 1)..Len(jsCode) : jsCode[i] = x}
    IN  IF later # {}
        THEN [found |-> TRUE,
              lastIndex |-> CHOOSE i \in later : \A j \in later : i <= j]
        ELSE [found |-> FALSE, lastIndex |-> 0]

\* A variant of commonTypos whose expressions are kept on the instance and
\* reused by every call.
commonTyposShared ==
    << [pattern |-> "sesion", lastIndex |-> lastIndex["sesion"]],
       [pattern |-> "sensot", lastIndex |-> lastIndex["sensot"]],
       [pattern |-> "conected", lastIndex |-> lastIndex["conected"]] >>

\* commonTypos of basicSyntaxCheck: an array literal, so every call builds
\* new expressions, whose lastIndex is 0.
commonTypos ==
    << [pattern |-> "sesion", lastIndex |-> 0],
       [pattern |-> "sensot", lastIndex |-> 0],
       [pattern |-> "conected", lastIndex |-> 0] >>

\* commonTypos.forEach(typo => typo.pattern.test(jsCode) ...)
TypoScan(jsCode) ==
    [i \in 1..Len(commonTypos) |->
        RegExpTest(jsCode, commonTypos[i].pattern, commonTypos[i].lastIndex)]

TypoWarnings(jsCode) ==
    Flatten([i \in 1..Len(commonTypos) |->
        IF TypoScan(jsCode)[i].found
        THEN << "possible typo: " \o commonTypos[i].pattern >> ELSE << >>])

\* lastIndex of the misspelling expressions once the scan is over.
TypoLastIndex(jsCode) ==
    [x \in TypoAtoms |->
        TypoScan(jsCode)[CHOOSE i \in 1..Len(commonTypos) :
                            commonTypos[i].pattern = x].lastIndex]

\* The misspelling expressions' lastIndex after validateJavaScript has
\* worked on jsCode: without script text basicSyntaxCheck is not called.
ScanState(jsCode) ==
    IF jsCode = << >> THEN lastIndex ELSE TypoLastIndex(jsCode)

\* A variant of basicSyntaxCheck that does not compare the brace counts.
basicSyntaxCheckNoBraces(jsCode) ==
    [errors |-> << >>, warnings |-> TypoWarnings(jsCode)]

\* A variant of basicSyntaxCheck that reports a misspelling as an error.
basicSyntaxCheckTypoErrors(jsCode) ==
    LET openBraces == SumOver(OpenBracesIn, jsCode)
        closeBraces == SumOver(CloseBracesIn, jsCode)
    IN  [errors |-> (IF openBraces # closeBraces THEN << "brace imbalance" >> ELSE << >>)
                       \o TypoWarnings(jsCode),
         warnings |-> TypoWarnings(jsCode)]

\* basicSyntaxCheck: brace counts and the misspelling scan.
basicSyntaxCheck(jsCode) ==
    LET openBraces == SumOver(OpenBracesIn, jsCode)
        closeBraces == SumOver(CloseBracesIn, jsCode)
    IN  [errors |-> IF openBraces # closeBraces THEN << "brace imbalance" >> ELSE << >>,
         warnings |-> TypoWarnings(jsCode)]

\* validateFileStructure(gamePath)
ValidateFileStructure(files, indexPresent) ==
    IF ~indexPresent
    THEN [score |-> 0, maxScore |-> 10, errors |-> << "index.html missing" >>,
          warnings |-> << >>, suggestions |-> << >>]
    ELSE IF "game.json" \in files
    THEN [score |-> 7 + 3, maxScore |-> 10, errors |-> << >>,
          warnings |-> IF "json.meta" \in files THEN << >>
                       ELSE << "game.json lacks title or description" >>,
          suggestions |-> << >>]
    ELSE [score |-> 7, maxScore |-> 10, errors |-> << >>,
          warnings |-> << "game.json missing or invalid" >>, suggestions |-> << >>]

\* The element loop of validateHTML: per rule, whether some selector matched.
ElementFound(document, elementRule) ==
    \E i \in 1..Len(elementRule.selectors) :
        SelectorMatches(elementRule.selectors[i]) \cap document # {}

\* validateHTML(htmlPath)
ValidateHTML(htmlContent, readable) ==
    IF ~readable
    THEN [score |-> 0, maxScore |-> 25, errors |-> << "HTML parse error" >>,
          warnings |-> << >>, suggestions |-> << >>]
    ELSE
    LET rules == requiredElements
        totalRequired == Cardinality({i \in 1..Len(rules) : ~rules[i].optional})
        foundElements == Cardinality({i \in 1..Len(rules) : ElementFound(htmlContent, rules[i])})
        elementErrors ==
            Flatten([i \in 1..Len(rules) |->
                IF ~ElementFound(htmlContent, rules[i]) /\ ~rules[i].optional
                THEN << "missing element: " \o rules[i].name >> ELSE << >>])
        foundScripts == Cardinality({i \in 1..Len(requiredScripts) :
                                        requiredScripts[i] \in htmlContent})
        scriptErrors ==
            Flatten([i \in 1..Len(requiredScripts) |->
                IF requiredScripts[i] \in htmlContent THEN << >>
                ELSE << "missing script: " \o requiredScripts[i] >>])
        viewportOk == "viewport" \in htmlContent /\ "noscale" \in htmlContent
    IN  [score |-> RoundShare(foundElements, Max(totalRequired, 1), 20)
                     + RoundShare(foundScripts, Len(requiredScripts), 5),
         maxScore |-> 25,
         errors |-> elementErrors \o scriptErrors,
         warnings |-> IF viewportOk THEN << >> ELSE << "viewport setting incomplete" >>,
         suggestions |-> << >>]

\* A variant of ClampScore that keeps a negative score.
ClampScoreOff(raw) == raw

\* result.score = Math.max(0, result.score) at the end of validateJavaScript
ClampScore(raw) == Max(0, raw)

\* validateJavaScript(htmlPath)
ValidateJavaScript(htmlContent, readable) ==
    IF ~readable
    THEN [score |-> 0, maxScore |-> 35, errors |-> << "JavaScript validation error" >>,
          warnings |-> << >>, suggestions |-> << >>]
    ELSE
    LET jsCode == extractJavaScriptFromHTML(htmlContent)
        pats == requiredPatterns
        foundPatterns == Cardinality({i \in 1..Len(pats) : Has(jsCode, pats[i].hits)})
        patternErrors ==
            Flatten([i \in 1..Len(pats) |->
                IF Has(jsCode, pats[i].hits) THEN << >>
                ELSE << "missing pattern: " \o getPatternName(pats[i]) >>])
        syntaxCheck == basicSyntaxCheck(jsCode)
        \* /try\s*\{[\s\S]*\}\s*catch/
        tryCatch == \E i \in 1..Len(jsCode) :
                        /\ jsCode[i] = "try"
                        /\ \E j \in (i + 1)..Len(jsCode) : jsCode[j] = "catch"
        raf == Has(jsCode, {"rAF"})
        clampIdiom == Has(jsCode, {"maxmin"})
        raw == RoundShare(foundPatterns, Len(pats), 25)
                 - Len(syntaxCheck.errors) * 2
                 + (IF tryCatch THEN 3 ELSE 0)
                 + (IF raf THEN 2 ELSE 0)
                 + (IF clampIdiom THEN 2 ELSE 0)
    IN  IF jsCode = << >>
        THEN [score |-> 0, maxScore |-> 35, errors |-> << "no JavaScript code" >>,
              warnings |-> << >>, suggestions |-> << >>]
        ELSE [score |-> ClampScore(raw), maxScore |-> 35,
              errors |-> patternErrors \o syntaxCheck.errors,
              warnings |-> syntaxCheck.warnings,
              suggestions |->
                  (IF tryCatch THEN << "error handling implemented" >> ELSE << >>)
                  \o (IF raf THEN << "optimised animation loop" >> ELSE << >>)
                  \o (IF clampIdiom THEN << "sensor range clamped" >> ELSE << >>)]

\* validateSDKIntegration(htmlPath)
ValidateSDKIntegration(htmlContent, readable) ==
    IF ~readable
    THEN [score |-> 0, maxScore |-> 20, errors |-> << "SDK validation error" >>,
          warnings |-> << >>, suggestions |-> << >>]
    ELSE
    LET jsCode == extractJavaScriptFromHTML(htmlContent)
        \* /new SessionSDK\(\{[\s\S]*gameId:...[\s\S]*gameType:.../
        sdkMatch == Has(jsCode, {"sdkInit"})
        eventListenerOrder == checkEventListenerOrder(jsCode)
        \* sdk.on(x, (..) => { ... event.detail || event
        customEvent == \E i \in 1..Len(jsCode) :
                          /\ jsCode[i] \in {"onConnected", "onConnectedDq",
                                            "onSessionCreated", "onSensorData"}
                          /\ \E j \in (i + 1)..Len(jsCode) : jsCode[j] = "unwrap"
        \* /QRCodeGenerator[\s\S]*try[\s\S]*catch[\s\S]*fallback/i
        qr == \E i \in 1..Len(jsCode) :
                 /\ jsCode[i] = "QRGen"
                 /\ \E j \in (i + 1)..Len(jsCode) :
                       /\ jsCode[j] = "try"
                       /\ \E k \in (j + 1)..Len(jsCode) :
                             /\ jsCode[k] = "catch"
                             /\ \E l \in (k + 1)..Len(jsCode) : jsCode[l] = "fallback"
    IN  [score |-> (IF sdkMatch THEN 5 ELSE 0)
                     + (IF eventListenerOrder.isValid THEN 8 ELSE 0)
                     + (IF customEvent THEN 5 ELSE 0)
                     + (IF qr THEN 2 ELSE 0),
         maxScore |-> 20,
         errors |-> (IF sdkMatch THEN << >> ELSE << "SessionSDK init pattern wrong" >>)
                    \o eventListenerOrder.errors
                    \o (IF customEvent THEN << >> ELSE << "CustomEvent pattern missing" >>),
         warnings |-> << >>,
         suggestions |->
             (IF sdkMatch THEN << "SessionSDK initialised" >> ELSE << >>)
             \o (IF eventListenerOrder.isValid THEN << "listener order correct" >> ELSE << >>)
             \o (IF customEvent THEN << "CustomEvent pattern correct" >> ELSE << >>)
             \o (IF qr THEN << "QR fallback implemented" >> ELSE << >>)]

\* validatePerformance(htmlPath)
ValidatePerformance(htmlContent, readable) ==
    IF ~readable
    THEN [score |-> 0, maxScore |-> 10, errors |-> << >>, warnings |-> << >>,
          suggestions |-> << "performance validation error" >>]
    ELSE
    LET jsCode == extractJavaScriptFromHTML(htmlContent)
        timed == Has(jsCode, {"rAF"}) /\ Has(jsCode, {"deltaTime"})
        guarded == Has(jsCode, {"isRunningGuard"})
        rendering == Has(jsCode, {"clearRect"}) /\ Has(jsCode, {"fillRect"})
        memory == Has(jsCode, {"cleanup"})
        responsive == Has(jsCode, {"resize"})
    IN  [score |-> (IF timed THEN 3 ELSE 0) + (IF guarded THEN 2 ELSE 0)
                     + (IF rendering THEN 2 ELSE 0) + (IF memory THEN 2 ELSE 0)
                     + (IF responsive THEN 1 ELSE 0),
         maxScore |-> 10, errors |-> << >>, warnings |-> << >>,
         suggestions |->
             (IF timed THEN << "time based animation loop" >> ELSE << >>)
             \o (IF guarded THEN << "state guarded sensor handling" >> ELSE << >>)
             \o (IF rendering THEN << "basic canvas rendering" >> ELSE << >>)
             \o (IF memory THEN << "memory management considered" >> ELSE << >>)
             \o (IF responsive THEN << "responsive resize handling" >> ELSE << >>)]

\* A variant of validateGenrePatterns that leaves the last pattern of the
\* bundle out.
validateGenrePatternsShort(htmlContent, patterns) ==
    LET n == Len(patterns) - 1
        details == [i \in 1..n |->
                       [pattern |-> patterns[i].re,
                        found |-> htmlContent \cap HtmlAtoms \cap patterns[i].hits # {}]]
    IN  [found |-> Cardinality({i \in 1..n : details[i].found}),
         total |-> n,
         details |-> details]

\* validateGenrePatterns(htmlContent, patterns): htmlContent.match(pattern)
\* over the whole file text.
validateGenrePatterns(htmlContent, patterns) ==
    LET details == [i \in 1..Len(patterns) |->
                       [pattern |-> patterns[i].re,
                        found |-> htmlContent \cap HtmlAtoms \cap patterns[i].hits # {}]]
    IN  [found |-> Cardinality({i \in 1..Len(patterns) : details[i].found}),
         total |-> Len(patterns),
         details |-> details]

\* validateKeyFeatures(htmlContent, keyFeatures)
validateKeyFeatures(htmlContent, keyFeatures) ==
    LET details == [i \in 1..Len(keyFeatures) |->
                       [feature |-> keyFeatures[i],
                        found |-> htmlContent \cap HtmlAtoms
                                     \cap keywordMap(keyFeatures[i]) # {}]]
    IN  [found |-> Cardinality({i \in 1..Len(keyFeatures) : details[i].found}),
         total |-> Len(keyFeatures),
         details |-> details]

\* A variant of generateGenreRecommendations that reports the unsatisfied
\* patterns only.
generateGenreRecommendationsPatternsOnly(patternResults, featureResults) ==
    LET missingPatterns == SelectSeq(patternResults.details, LAMBDA p : ~p.found)
    IN  IF Len(missingPatterns) > 0
        THEN << [category |-> "missing core capability",
                 items |-> [i \in 1..Len(missingPatterns) |->
                               "implement pattern: " \o missingPatterns[i].pattern]] >>
        ELSE << >>

\* generateGenreRecommendations(rules, patternResults, featureResults)
generateGenreRecommendations(patternResults, featureResults) ==
    LET missingPatterns == SelectSeq(patternResults.details, LAMBDA p : ~p.found)
        missingFeatures == SelectSeq(featureResults.details, LAMBDA f : ~f.found)
    IN  (IF Len(missingPatterns) > 0
         THEN << [category |-> "missing core capability",
                  items |-> [i \in 1..Len(missingPatterns) |->
                                "implement pattern: " \o missingPatterns[i].pattern]] >>
         ELSE << >>)
        \o
        (IF Len(missingFeatures) > 0
         THEN << [category |-> "recommended feature",
                  items |-> [i \in 1..Len(missingFeatures) |->
                                missingFeatures[i].feature \o " recommended"]] >>
         ELSE << >>)

\* this.genreSpecificRules[genre] is truthy
HasGenreRules(genre) == genre \in BundleKeys \cup ObjectPrototypeKeys

\* validateGenreSpecifics(htmlContent, genre).  thrown: the lookup hit an
\* inherited property, rules.requiredPatterns is undefined and
\* patterns.length raises a TypeError.
ValidateGenreSpecifics(htmlContent, genre) ==
    LET empty == [score |-> 0, maxScore |-> 30, recommendations |-> << >>,
                  patternScore |-> 0, featureScore |-> 0, thrown |-> FALSE]
    IN  IF ~HasGenreRules(genre) THEN empty
        ELSE IF genre \notin BundleKeys THEN [empty EXCEPT !.thrown = TRUE]
        ELSE
        LET rules == genreSpecificRules[genre]
            patternResults == validateGenrePatterns(htmlContent, rules.requiredPatterns)
            featureResults == validateKeyFeatures(htmlContent, rules.keyFeatures)
            patternScore == RoundShare(patternResults.found, patternResults.total, 20)
            featureScore == RoundShare(featureResults.found, featureResults.total, 10)
        IN  [score |-> patternScore + featureScore,
             maxScore |-> 30,
             recommendations |->
                 generateGenreRecommendations(patternResults, featureResults),
             patternScore |-> patternScore,
             featureScore |-> featureScore,
             thrown |-> FALSE]

\* String.prototype.toLowerCase on the genre labels used as input.
ToLowerCase(label) ==
    CASE label = "Arcade" -> "arcade"
      [] OTHER -> label

\* gameId.toLowerCase().includes(keyword), for the game ids used as input.
GameIdIncludes(id, keyword) ==
    CASE id = "Ball-Drop" -> keyword \in {"ball"}
      [] id = "car-race" -> keyword \in {"car", "race"}
      [] OTHER -> FALSE

\* genreKeywords of extractGenreInfo, in Object.entries order.
genreKeywords ==
    << [genre |-> "physics", keywords |-> {"physics", "ball", "gravity"}],
       [genre |-> "cooking", keywords |-> {"cooking", "cook", "recipe"}],
       [genre |-> "action", keywords |-> {"action", "fight", "battle"}],
       [genre |-> "puzzle", keywords |-> {"puzzle", "maze", "solve"}],
       [genre |-> "racing", keywords |-> {"racing", "race", "car"}] >>

\* extractGenreInfo(gameMetadata, gameId); metaGenre = None stands for no
\* metadata or a metadata object without genre.
extractGenreInfo(metaGenre, id) ==
    IF metaGenre # None THEN ToLowerCase(metaGenre)
    ELSE LET hit(i) == \E k \in genreKeywords[i].keywords : GameIdIncludes(id, k)
         IN  IF \E i \in 1..Len(genreKeywords) : hit(i)
             THEN genreKeywords[CHOOSE i \in 1..Len(genreKeywords) :
                                   hit(i) /\ \A j \in 1..(i - 1) : ~hit(j)].genre
             ELSE None

\* A variant of calculateGrade with the two middle grades exchanged.
calculateGradeSwapped(score) ==
    IF score >= 90 THEN "A+"
    ELSE IF score >= 80 THEN "A"
    ELSE IF score >= 70 THEN "B"
    ELSE IF score >= 60 THEN "B+"
    ELSE IF score >= 50 THEN "C"
    ELSE "F"

\* calculateGrade(score)
calculateGrade(score) ==
    IF score >= 90 THEN "A+"
    ELSE IF score >= 80 THEN "A"
    ELSE IF score >= 70 THEN "B+"
    ELSE IF score >= 60 THEN "B"
    ELSE IF score >= 50 THEN "C"
    ELSE "F"

\* String.prototype.toUpperCase on the genres validateGame can record.
ToUpperCase(genre) ==
    CASE genre = "physics" -> "PHYSICS"
      [] genre = "arcade" -> "ARCADE"
      [] genre = "racing" -> "RACING"
      [] genre = "strategy" -> "STRATEGY"
      [] genre = "constructor" -> "CONSTRUCTOR"
      [] genre = "physics-puzzle" -> "PHYSICS-PUZZLE"
      [] OTHER -> genre

\* list.forEach((entry, index) => report += `  ${index + 1}. ${entry}\n`)
ReportLines(list) ==
    [k \in 1..Len(list) |-> "  " \o ToString(k) \o ". " \o list[k]]

\* A variant of generateReport that renders the suggestions before the
\* warnings.
generateReportSuggestionsFirst(validationResult, id) ==
    LET errors == validationResult.errors
        warnings == validationResult.warnings
        suggestions == validationResult.suggestions
    IN  << "validation report: " \o id,
           "total: " \o ToString(validationResult.score) \o "/"
              \o ToString(validationResult.maxScore)
              \o " (grade: " \o validationResult.grade \o ")",
           "state: " \o (IF validationResult.isValid THEN "playable" ELSE "to be fixed"),
           IF validationResult.genre # None
           THEN "genre: " \o ToUpperCase(validationResult.genre) ELSE "" >>
        \o (IF Len(errors) > 0
            THEN << "errors (" \o ToString(Len(errors)) \o "):" >> \o ReportLines(errors)
            ELSE << >>)
        \o (IF Len(suggestions) > 0
            THEN << "suggestions (" \o ToString(Len(suggestions)) \o "):" >>
                 \o ReportLines(suggestions)
            ELSE << >>)
        \o (IF Len(warnings) > 0
            THEN << "warnings (" \o ToString(Len(warnings)) \o "):" >>
                 \o ReportLines(warnings)
            ELSE << >>)
        \o << "==================================" >>

\* generateReport(validationResult), as a list of lines; id is
\* validationResult.gameId.
generateReport(validationResult, id) ==
    LET errors == validationResult.errors
        warnings == validationResult.warnings
        suggestions == validationResult.suggestions
    IN  << "validation report: " \o id,
           "total: " \o ToString(validationResult.score) \o "/"
              \o ToString(validationResult.maxScore)
              \o " (grade: " \o validationResult.grade \o ")",
           "state: " \o (IF validationResult.isValid THEN "playable" ELSE "to be fixed"),
           IF validationResult.genre # None
           THEN "genre: " \o ToUpperCase(validationResult.genre) ELSE "" >>
        \o (IF Len(errors) > 0
            THEN << "errors (" \o ToString(Len(errors)) \o "):" >> \o ReportLines(errors)
            ELSE << >>)
        \o (IF Len(warnings) > 0
            THEN << "warnings (" \o ToString(Len(warnings)) \o "):" >>
                 \o ReportLines(warnings)
            ELSE << >>)
        \o (IF Len(suggestions) > 0
            THEN << "suggestions (" \o ToString(Len(suggestions)) \o "):" >>
                 \o ReportLines(suggestions)
            ELSE << >>)
        \o << "==================================" >>

\* ------------------------------- InteractiveGameGenerator.validateGameCode
\* The generated code is the set of literal snippets it contains; each
\* snippet is spelt as named.
CodeAtoms ==
    {"<!DOCTYPE html>", "<html>", "</html>", "<head>", "</head>",
     "<meta charset=", "<title>", "<body>", "</body>",
     "SessionSDK.js", "new SessionSDK", "gameId:", "gameType:",
     "event.detail || event", "sdk.on('connected'", "session-created",
     "<canvas", "getContext", "requestAnimationFrame", "setInterval",
     "playing", "gameOver", "score", "++", "+=", "window", "lose",
     "sensor-data", "orientation", "acceleration", "rotationRate",
     "smooth", "threshold", "<style>", "var(--", "@media", "viewport", "button"}

\* The search strings of validateGameCode that a snippet's text contains
\* besides itself.
AlsoContains(snippet) ==
    CASE snippet = "SessionSDK.js" -> {"SessionSDK"}
      [] snippet = "new SessionSDK" -> {"SessionSDK"}
      [] snippet = "<canvas" -> {"canvas"}
      [] snippet = "window" -> {"win"}
      [] OTHER -> {}

\* gameCode.includes(needle)
Includes(gameCode, needle) ==
    \E snippet \in gameCode : needle = snippet \/ needle \in AlsoContains(snippet)

\* validateHTMLStructure(gameCode, validation)
validateHTMLStructure(gameCode) ==
    LET doctype == Includes(gameCode, "<!DOCTYPE html>")
        html == Includes(gameCode, "<html>") /\ Includes(gameCode, "</html>")
        head == Includes(gameCode, "<head>") /\ Includes(gameCode, "</head>")
        body == Includes(gameCode, "<body>") /\ Includes(gameCode, "</body>")
        score == (IF doctype THEN 5 ELSE 0) + (IF html THEN 5 ELSE 0)
                 + (IF head THEN 3 + (IF Includes(gameCode, "<meta charset=") THEN 2 ELSE 0)
                                  + (IF Includes(gameCode, "<title>") THEN 2 ELSE 0)
                    ELSE 0)
                 + (IF body THEN 3 ELSE 0)
    IN  [score |-> Min(score, 20),
         errors |-> (IF doctype THEN << >> ELSE << "no HTML5 DOCTYPE" >>)
                    \o (IF html THEN << >> ELSE << "HTML tag incomplete" >>),
         warnings |-> (IF head THEN << >> ELSE << "HEAD section missing" >>)
                      \o (IF body THEN << >> ELSE << "BODY section missing" >>)]

\* validateSessionSDK(gameCode, validation)
validateSessionSDK(gameCode) ==
    LET loaded == Includes(gameCode, "SessionSDK.js") \/ Includes(gameCode, "SessionSDK")
        init == Includes(gameCode, "new SessionSDK")
        unwrap == Includes(gameCode, "event.detail || event")
        connected == Includes(gameCode, "sdk.on('connected'")
        created == Includes(gameCode, "session-created")
        score == (IF loaded THEN 10 ELSE 0)
                 + (IF init
                    THEN 8 + (IF Includes(gameCode, "gameId:") /\ Includes(gameCode, "gameType:")
                              THEN 2 ELSE 0)
                    ELSE 0)
                 + (IF unwrap THEN 5 ELSE 0) + (IF connected THEN 3 ELSE 0)
                 + (IF created THEN 2 ELSE 0)
    IN  [score |-> Min(score, 30),
         errors |-> (IF loaded THEN << >> ELSE << "no SessionSDK load" >>)
                    \o (IF init THEN << >> ELSE << "no SessionSDK init" >>),
         warnings |-> (IF unwrap THEN << >> ELSE << "CustomEvent pattern missing" >>)
                      \o (IF connected THEN << >> ELSE << "connected wait missing" >>)
                      \o (IF created THEN << >> ELSE << "session-created missing" >>)]

\* validateGameLogic(gameCode, validation)
validateGameLogic(gameCode) ==
    LET canvas == Includes(gameCode, "<canvas") \/ Includes(gameCode, "canvas")
        loop == Includes(gameCode, "requestAnimationFrame") \/ Includes(gameCode, "setInterval")
        states == \E st \in {"playing", "paused", "gameOver", "ready"} : Includes(gameCode, st)
        scoring == Includes(gameCode, "score")
                     /\ (Includes(gameCode, "++") \/ Includes(gameCode, "+="))
        ending == Includes(gameCode, "win") \/ Includes(gameCode, "lose")
                     \/ Includes(gameCode, "gameover")
        score == (IF canvas THEN 8 + (IF Includes(gameCode, "getContext") THEN 2 ELSE 0) ELSE 0)
                 + (IF loop THEN 6 ELSE 0) + (IF states THEN 4 ELSE 0)
                 + (IF scoring THEN 3 ELSE 0) + (IF ending THEN 2 ELSE 0)
    IN  [score |-> Min(score, 25),
         errors |-> << >>,
         warnings |-> (IF canvas THEN << >> ELSE << "no canvas detected" >>)
                      \o (IF loop THEN << >> ELSE << "no game loop detected" >>)
                      \o (IF states THEN << >> ELSE << "no game state management" >>)
                      \o (IF scoring THEN << >> ELSE << "no score system" >>)
                      \o (IF ending THEN << >> ELSE << "win/lose condition unclear" >>)]

\* validateSensorHandling(gameCode, validation)
validateSensorHandling(gameCode) ==
    LET data == Includes(gameCode, "sensor-data")
        detectedSensors == {t \in {"orientation", "acceleration", "rotationRate"} :
                               Includes(gameCode, t)}
        smoothing == Includes(gameCode, "smooth") \/ Includes(gameCode, "filter")
                        \/ Includes(gameCode, "threshold")
        score == (IF data THEN 8 ELSE 0) + Cardinality(detectedSensors) * 2
                 + (IF smoothing THEN 3 ELSE 0)
    IN  [score |-> Min(score, 15),
         errors |-> IF data THEN << >> ELSE << "no sensor data handling" >>,
         warnings |-> IF smoothing THEN << >> ELSE << "sensor smoothing recommended" >>]

\* validateUI(gameCode, validation)
validateUI(gameCode) ==
    LET css == Includes(gameCode, "<style>") \/ Includes(gameCode, "css")
        responsive == Includes(gameCode, "@media") \/ Includes(gameCode, "viewport")
        controls == Includes(gameCode, "button") \/ Includes(gameCode, "onclick")
        score == (IF css
                  THEN 4 + (IF Includes(gameCode, "--primary") \/ Includes(gameCode, "var(--")
                            THEN 2 ELSE 0)
                  ELSE 0)
                 + (IF responsive THEN 2 ELSE 0) + (IF controls THEN 2 ELSE 0)
    IN  [score |-> Min(score, 10),
         errors |-> << >>,
         warnings |-> (IF css THEN << >> ELSE << "no CSS style" >>)
                      \o (IF responsive THEN << >> ELSE << "responsive design recommended" >>)]

CodeCategories == << "structure", "sessionSDK", "gameLogic", "sensors", "ui" >>

CodeMax ==
    [c \in {"structure", "sessionSDK", "gameLogic", "sensors", "ui"} |->
        CASE c = "structure" -> 20
          [] c = "sessionSDK" -> 30
          [] c = "gameLogic" -> 25
          [] c = "sensors" -> 15
          [] OTHER -> 10]

\* validateGameCode(gameCode).  code.isString = FALSE stands for a value
\* without an includes method (null, undefined, a number): the first
\* gameCode.includes call raises and the catch block answers.
validateGameCode(code) ==
    LET zero == [c \in DOMAIN CodeMax |-> [score |-> 0, max |-> CodeMax[c]]]
    IN  IF ~code.isString
        THEN [isValid |-> FALSE, errors |-> << "error during validation" >>,
              warnings |-> << >>, score |-> 0, details |-> zero]
        ELSE
        LET sub == [c \in DOMAIN CodeMax |->
                      CASE c = "structure" -> validateHTMLStructure(code.text)
                        [] c = "sessionSDK" -> validateSessionSDK(code.text)
                        [] c = "gameLogic" -> validateGameLogic(code.text)
                        [] c = "sensors" -> validateSensorHandling(code.text)
                        [] OTHER -> validateUI(code.text)]
            errors == Flatten([i \in 1..Len(CodeCategories) |-> sub[CodeCategories[i]].errors])
            warnings == Flatten([i \in 1..Len(CodeCategories) |-> sub[CodeCategories[i]].warnings])
            score == SumOver([c \in DOMAIN CodeMax |-> sub[c].score], CodeCategories)
        IN  [isValid |-> Len(errors) = 0 /\ score >= 80,
             errors |-> errors,
             warnings |-> warnings,
             score |-> score,
             details |-> [c \in DOMAIN CodeMax |-> [score |-> sub[c].score, max |-> CodeMax[c]]]]

\* ------------------------------------------------------------------ inputs
\* An index.html without markup.
EmptyArtifact == {}

\* The least artifact that validateGame finds no error in.
MinimalArtifact ==
    {"canvas#game-canvas", "#session-code-display", "#qr-container",
     "src:socket.io", "src:SessionSDK",
     "sdkInit", "onConnected", "createSession", "onSessionCreated",
     "onSensorData", "unwrap", "getContext", "rAF"}

\* An artifact that satisfies every rule of every category and every
\* pattern and feature of the arcade and physics bundles.
FullArtifact ==
    MinimalArtifact \cup
    {"game.json", "json.meta", "viewport", "noscale",
     "deltaTime", "isRunningGuard", "maxmin", "QRGen", "try", "catch",
     "fallback", "cleanup", "resize", "clearRect", "fillRect",
     "gravity", "friction", "velocity", "collision", "Math.sin",
     "score", "level", "timer", "gameOver"}

BaseArtifacts == {EmptyArtifact, MinimalArtifact, FullArtifact}

\* The sets of at most k members of S.
RECURSIVE UpTo(_, _)
UpTo(S, k) ==
    IF k = 0 THEN {{}}
    ELSE LET smaller == UpTo(S, k - 1)
         IN  smaller \cup {D \cup {x} : D \in smaller, x \in S}

\* Base with the fragments of D toggled.
Toggle(base, D) == (base \ D) \cup (D \ base)

Artifacts == {Toggle(b, D) : b \in BaseArtifacts, D \in UpTo(Atoms, MaxEdits)}

\* (gameMetadata.genre, gameId) pairs handed to validateGame.
GenreInputs ==
    {<<g, "game-1">> : g \in {None, "physics", "Arcade", "strategy",
                              "constructor", "physics-puzzle"}}
    \cup {<<None, "Ball-Drop">>, <<None, "car-race">>}

\* Generated code handed to validateGameCode.
EmptyCode == {}

BareCode == {"<!DOCTYPE html>", "<html>", "</html>", "new SessionSDK", "sensor-data"}

FullCode == CodeAtoms \ {"setInterval", "lose"}

GameCodes ==
    {[isString |-> TRUE, text |-> Toggle(b, D)] :
        b \in {EmptyCode, BareCode, FullCode}, D \in UpTo(CodeAtoms, MaxEdits)}
    \cup {[isString |-> FALSE, text |-> {}]}

\* The HTML documents generateFinalGame may cut out of a model answer.
GeneratedCodes == {code \in GameCodes : code.isString}

\* this.config.minQualityScore and this.config.maxRetries
minQualityScore == 95
maxRetries == 3

\* ------------------------------------ InteractiveGameGenerator: sessions
\* The session id the callers use (unknown until startNewSession is called).
SessionIds == {"s1"}

\* The calls of startNewSession, processUserMessage and generateFinalGame
\* made in one run, numbered in the order in which they are made.
MaxCalls == 4

CallIds == 1..MaxCalls

\* What callClaudeForConversation yields: the call fails, or a reply text.
\* markers: the text holds JSON_START ... JSON_END; block: what stands
\* between the markers (without markers: the last {...} block of the text):
\* nothing, text that is no JSON, or a JSON object with the fields given
\* ("number" / "string": the value 80 / the text "80"; "true" / "false":
\* the booleans; "string": the text "true").
Reply(markers, block, collectedInfo, infoCompleteness, readyToGenerate) ==
    [failed |-> FALSE, markers |-> markers, block |-> block,
     collectedInfo |-> collectedInfo, infoCompleteness |-> infoCompleteness,
     readyToGenerate |-> readyToGenerate]

\* No answer of the model yet.
NoReply == Reply(FALSE, "pending", "absent", "absent", "absent")

FailedReply == [Reply(FALSE, "none", "absent", "absent", "absent") EXCEPT !.failed = TRUE]

Replies ==
    {FailedReply,
     Reply(FALSE, "none", "absent", "absent", "absent"),
     Reply(TRUE, "bad", "title", "number", "true"),
     Reply(TRUE, "object", "title", "number", "true"),
     Reply(TRUE, "object", "absent", "number", "false"),
     Reply(FALSE, "object", "title", "string", "string")}

\* metadata: null
NoMetadata ==
    [present |-> FALSE, collectedInfo |-> "absent", infoCompleteness |-> "absent",
     readyToGenerate |-> "absent"]

\* A variant of parseAIResponse that takes the fields of a block that is
\* no JSON as far as they can be read.
parseAIResponseLenient(aiResponse) ==
    IF aiResponse.block \in {"object", "bad"}
    THEN [present |-> TRUE, collectedInfo |-> aiResponse.collectedInfo,
          infoCompleteness |-> aiResponse.infoCompleteness,
          readyToGenerate |-> aiResponse.readyToGenerate]
    ELSE NoMetadata

\* parseAIResponse(aiResponse).metadata: with markers JSON.parse of what
\* stands between them, without markers JSON.parse of the last {...} block;
\* a failed JSON.parse leaves metadata null.
parseAIResponse(aiResponse) ==
    LET parsed == [present |-> TRUE, collectedInfo |-> aiResponse.collectedInfo,
                   infoCompleteness |-> aiResponse.infoCompleteness,
                   readyToGenerate |-> aiResponse.readyToGenerate]
    IN  IF aiResponse.markers
        THEN IF aiResponse.block = "object" THEN parsed ELSE NoMetadata
        ELSE IF aiResponse.block = "none" THEN NoMetadata
        ELSE IF aiResponse.block = "object" THEN parsed
        ELSE NoMetadata

\* processFreeformConversation(session, userMessage).metadata: a failed AI
\* call is caught and answered with an apology and metadata null.
processFreeformConversation(aiResponse) ==
    IF aiResponse.failed THEN NoMetadata ELSE parseAIResponse(aiResponse)

\* The session literal of startNewSession; history entries are
\* << role, the call the message belongs to >> (0: the welcome message),
\* collectedInfo is the set of its fields that are filled in, lastUpdated
\* counts the times it was set.
NewSession(sessionId) ==
    [id |-> sessionId, conversationHistory |-> << >>, collectedInfo |-> {},
     infoCompleteness |-> 0, readyToGenerate |-> FALSE,
     gameRequirements |-> "unset", stage |-> "unset", lastUpdated |-> 0]

\* The state-update block of processUserMessage (if (response.metadata) ...).
UpdateSession(session, metadata) ==
    [session EXCEPT
        !.collectedInfo =
            IF metadata.present /\ metadata.collectedInfo # "absent"
            THEN @ \cup {metadata.collectedInfo} ELSE @,
        !.infoCompleteness =
            IF metadata.present /\ metadata.infoCompleteness = "number" THEN 80 ELSE @,
        !.readyToGenerate =
            IF metadata.present /\ metadata.readyToGenerate \in {"true", "false"}
            THEN metadata.readyToGenerate = "true" ELSE @,
        !.lastUpdated = @ + 1]

\* if (!session.readyToGenerate) throw ... in generateFinalGame; a variant
\* without the check comes first.
ReadyCheckOff(session) == TRUE

ReadyCheck(session) == session.readyToGenerate

\* What saveGameToFiles meets: whether it writes locally (SAVE_GAMES_LOCALLY
\* or development), the fs call that fails ("none": none does), whether a
\* storage client is configured, what the upload of index.html gives
\* ("ok", an error result, or a thrown error) and whether the insert of the
\* database row gives an error.
SaveEnvironments ==
    [saveToLocal : BOOLEAN,
     fsFault : {"none", "mkdir", "index.html", "game.json", "README.md", "report"},
     client : BOOLEAN,
     upload : {"ok", "error", "thrown"},
     dbError : BOOLEAN]

\* saveGameToFiles(gameCode, metadata): what is persisted and what is
\* returned.  A failing fs call throws into the catch block.  The return
\* statement names reportPath, a const of the if (saveToLocal) block, outside
\* that block: evaluating it throws a ReferenceError, which the catch block
\* turns into success: false.
saveGameToFiles(env) ==
    LET thrown == env.saveToLocal /\ env.fsFault # "none"
        uploaded == ~thrown /\ env.client /\ env.upload = "ok"
    IN  [indexWritten |-> env.saveToLocal /\ env.fsFault \notin {"mkdir", "index.html"},
         validated |-> env.saveToLocal /\ env.fsFault \in {"none", "report"},
         uploaded |-> uploaded,
         row |-> uploaded /\ ~env.dbError,
         success |-> FALSE]

\* ------------------------------------------------------------------- state
VARIABLES
    call,          \* which entry point runs: "validateGame" or "validateGameCode"
    gameId,        \* validateGame argument
    gameMetadata,  \* gameMetadata.genre, None when there is none
    artifact,      \* the fragments of index.html and game.json on disk
    indexFile,     \* index.html: "present", "missing" (never there) or
                   \* "removed" (deleted while a validation was under way)
    gameCode,      \* validateGameCode argument
    pc,            \* the await validateGame is suspended at
    results,       \* the results object of validateGame
    validation,    \* the object validateGameCode returns
    round,         \* 1 for the first validateGame call on the instance, 2 for
                   \* the repeated call with the same arguments
    previous,      \* what the first call returned (None during round 1)
    pipeline,      \* generateFinalGame: generations made, whether one was
                   \* validated, whether the game was saved, and the success
                   \* field of what the call returned
    ref,           \* the object the running call's results variable refers to
    parked,        \* the validateGame call suspended at an await while the
                   \* running one proceeds (NoCall when there is one call only)
    heap,          \* the results objects as last written by suspended calls
    report,        \* the lines generateReport rendered (none before)
    activeSessions, \* this.activeSessions: session id -> session object (0: no entry)
    sessionObjects, \* the session objects ever created, by object number
    calls,         \* the startNewSession / processUserMessage / generateFinalGame
                   \* calls made so far: arguments, session object, position,
                   \* the model's answer received, return value
    effects        \* per session object: generations requested, artifacts
                   \* validated, files written, uploaded, rows inserted

vars == << call, gameId, gameMetadata, artifact, indexFile, gameCode, pc,
           results, validation, round, previous, lastIndex, pipeline,
           ref, parked, heap, report,
           activeSessions, sessionObjects, calls, effects >>

\* The variables of the session operations.
sessionVars == << activeSessions, sessionObjects, calls, effects >>

\* The results literal at the top of validateGame.
NewResults ==
    [isValid |-> TRUE, score |-> 0, maxScore |-> 130,
     errors |-> << >>, warnings |-> << >>, suggestions |-> << >>,
     details |-> << >>, genreCompliance |-> None, genre |-> None,
     grade |-> Undefined]

\* The validation literal at the top of validateGameCode.
NewValidation ==
    [isValid |-> TRUE, errors |-> << >>, warnings |-> << >>, score |-> 100,
     details |-> [c \in DOMAIN CodeMax |-> [score |-> 0, max |-> CodeMax[c]]]]

NoCode == [isString |-> TRUE, text |-> {}]

\* What saveGameToFiles can do and return.
SaveResults == {saveGameToFiles(env) : env \in SaveEnvironments}

\* A call that has not been made yet.
NotCalled ==
    [kind |-> "none", sessionId |-> "s1", session |-> 0, pc |-> "idle",
     success |-> "pending", aiResponse |-> NoReply, message |-> "none"]

\* Per session object: generations requested from the model, artifacts
\* validated, index.html files written locally, index.html files uploaded,
\* database rows inserted.
NoEffects ==
    [o \in CallIds |->
        [generations |-> 0, validated |-> 0, written |-> 0, uploaded |-> 0, rows |-> 0]]

\* new Map() and nothing called on the generator yet.
NoSessions ==
    /\ activeSessions = [s \in SessionIds |-> 0]
    /\ sessionObjects = [o \in CallIds |-> NewSession("s1")]
    /\ calls = [c \in CallIds |-> NotCalled]
    /\ effects = NoEffects

\* The session map is not followed (no session objects, no calls).
SessionsNotFollowed ==
    /\ activeSessions = << >>
    /\ sessionObjects = << >>
    /\ calls = << >>
    /\ effects = << >>

\* validateGame(gameId, gamePath, gameMetadata) on a game directory: a
\* directory without index.html holds fragments of game.json only.
InitValidateGame ==
    /\ call = "validateGame"
    /\ \E in \in GenreInputs : gameMetadata = in[1] /\ gameId = in[2]
    /\ artifact \in Artifacts
    /\ indexFile \in {"present", "missing"}
    /\ indexFile = "missing" => artifact \subseteq FileAtoms
    /\ gameCode = NoCode

InitValidateGameCode ==
    /\ call = "validateGameCode"
    /\ gameMetadata = None /\ gameId = "game-1"
    /\ artifact = {}
    /\ indexFile = "missing"
    /\ gameCode \in GameCodes

\* generateFinalGame(sessionId) for a session that is ready to generate; the
\* code is not generated yet.
InitGenerateFinalGame ==
    /\ call = "generateFinalGame"
    /\ gameMetadata = None /\ gameId = "game-1"
    /\ artifact = {}
    /\ indexFile = "missing"
    /\ gameCode = NoCode

\* A variant of ResultsObject for a results object kept on the instance
\* and used by every call.
ResultsObjectShared(callNo) == 1

\* const results = { ... } in validateGame: an object literal, so every
\* call gets an object of its own.
ResultsObject(callNo) == callNo

CallNumbers == {1, 2}

\* parked when validateGame is called once only.
NoCall ==
    [gameId |-> None, gameMetadata |-> None, artifact |-> {}, indexFile |-> "missing",
     pc |-> "absent", ref |-> 0]

\* A second validateGame call is under way on the instance.
Concurrent == parked.pc # "absent"

Init ==
    /\ InitValidateGame \/ InitValidateGameCode \/ InitGenerateFinalGame
    /\ ref = ResultsObject(1)
    /\ parked = NoCall
    /\ heap = [o \in CallNumbers |-> NewResults]
    /\ pipeline = [attempts |-> 0, validated |-> FALSE, saved |-> FALSE,
                   success |-> Undefined]
    /\ pc = "start"
    /\ results = NewResults
    /\ validation = NewValidation
    /\ round = 1
    /\ previous = None
    /\ lastIndex = [x \in TypoAtoms |-> 0]
    /\ report = << >>
    /\ SessionsNotFollowed

\* ----------------------------------------------------------------- actions
\* details[name] = category, as results.details.<name> = ... does.
SetDetail(details, name, category) ==
    [c \in (DOMAIN details) \cup {name} |-> IF c = name THEN category ELSE details[c]]

\* Adds a category's score and findings to results, the way the block after
\* each await in validateGame does; takeWarnings / takeSuggestions say which
\* lists that block copies.
Absorb(res, name, category, takeWarnings, takeSuggestions) ==
    [res EXCEPT
        !.details = SetDetail(@, name, category),
        !.score = @ + category.score,
        !.errors = @ \o category.errors,
        !.isValid = IF Len(category.errors) > 0 THEN FALSE ELSE @,
        !.warnings = IF takeWarnings THEN @ \o category.warnings ELSE @,
        !.suggestions = IF takeSuggestions THEN @ \o category.suggestions ELSE @]

\* A variant of ProcessError that also resets the score, as the catch block
\* of validateGameCode does.
ProcessErrorZero(res) ==
    [res EXCEPT !.isValid = FALSE,
                !.errors = @ \o << "validation process error" >>,
                !.score = 0]

\* The catch block of validateGame.
ProcessError(res) ==
    [res EXCEPT !.isValid = FALSE,
                !.errors = @ \o << "validation process error" >>]

\* validateGame up to its first await: extractGenreInfo.
Start ==
    /\ call = "validateGame" /\ pc = "start"
    /\ results' = [results EXCEPT !.genre = extractGenreInfo(gameMetadata, gameId)]
    /\ pc' = "files"
    /\ UNCHANGED << call, gameId, gameMetadata, artifact, indexFile, gameCode, validation,
                    round, previous, lastIndex, pipeline,
                    ref, parked, heap, report, sessionVars >>

\* 1. await this.validateFileStructure(gamePath)
StepFiles ==
    /\ call = "validateGame" /\ pc = "files"
    /\ results' = Absorb(results, "files",
                         ValidateFileStructure(artifact, indexFile = "present"),
                         FALSE, FALSE)
    /\ pc' = "html"
    /\ UNCHANGED << call, gameId, gameMetadata, artifact, indexFile, gameCode, validation,
                    round, previous, lastIndex, pipeline,
                    ref, parked, heap, report, sessionVars >>

\* 2. await this.validateHTML(htmlPath)
StepHTML ==
    /\ call = "validateGame" /\ pc = "html"
    /\ results' = Absorb(results, "html",
                         ValidateHTML(artifact, indexFile = "present"), TRUE, FALSE)
    /\ pc' = "javascript"
    /\ UNCHANGED << call, gameId, gameMetadata, artifact, indexFile, gameCode, validation,
                    round, previous, lastIndex, pipeline,
                    ref, parked, heap, report, sessionVars >>

\* 3. await this.validateJavaScript(htmlPath)
StepJavaScript ==
    /\ call = "validateGame" /\ pc = "javascript"
    /\ results' = Absorb(results, "javascript",
                         ValidateJavaScript(artifact, indexFile = "present"), TRUE, TRUE)
    /\ lastIndex' = IF indexFile = "present"
                    THEN ScanState(extractJavaScriptFromHTML(artifact))
                    ELSE lastIndex
    /\ pc' = "sdk"
    /\ UNCHANGED << call, gameId, gameMetadata, artifact, indexFile, gameCode, validation,
                    round, previous, pipeline,
                    ref, parked, heap, report, sessionVars >>

\* 4. await this.validateSDKIntegration(htmlPath); without a genre the code
\* goes on to validatePerformance, with one it awaits fs.readFile first.
StepSDK ==
    /\ call = "validateGame" /\ pc = "sdk"
    /\ results' = Absorb(results, "sdk",
                         ValidateSDKIntegration(artifact, indexFile = "present"),
                         FALSE, TRUE)
    /\ pc' = IF results.genre # None THEN "genre" ELSE "performance"
    /\ UNCHANGED << call, gameId, gameMetadata, artifact, indexFile, gameCode, validation,
                    round, previous, lastIndex, pipeline,
                    ref, parked, heap, report, sessionVars >>

\* The suggestions the recommendations are rendered into.
RecommendationLines(recommendations) ==
    IF Len(recommendations) = 0 THEN << >>
    ELSE << "=== genre suggestions ===" >>
         \o Flatten([i \in 1..Len(recommendations) |->
                << recommendations[i].category \o ":" >>
                \o [j \in 1..Len(recommendations[i].items) |->
                       "  - " \o recommendations[i].items[j]]])

\* 5. if (results.genre): await fs.readFile, await validateGenreSpecifics.
\* A failed read or a TypeError inside validateGenreSpecifics lands in the
\* catch block of validateGame, which returns at once.
StepGenre ==
    /\ call = "validateGame" /\ pc = "genre"
    /\ LET genreValidation == ValidateGenreSpecifics(artifact, results.genre)
       IN  IF indexFile # "present" \/ genreValidation.thrown
           THEN /\ results' = ProcessError(results)
                /\ pc' = "done"
           ELSE /\ results' =
                     [results EXCEPT
                        !.details = SetDetail(@, "genreCompliance",
                                        [score |-> genreValidation.score,
                                         maxScore |-> genreValidation.maxScore,
                                         patternScore |-> genreValidation.patternScore,
                                         featureScore |-> genreValidation.featureScore,
                                         errors |-> << >>, warnings |-> << >>,
                                         suggestions |-> << >>]),
                        !.genreCompliance = genreValidation.recommendations,
                        !.score = @ + genreValidation.score,
                        !.suggestions = @ \o RecommendationLines(genreValidation.recommendations)]
                /\ pc' = "performance"
    /\ UNCHANGED << call, gameId, gameMetadata, artifact, indexFile, gameCode, validation,
                    round, previous, lastIndex, pipeline,
                    ref, parked, heap, report, sessionVars >>

\* 6. await this.validatePerformance(htmlPath), the final rounding and the grade.
StepPerformance ==
    /\ call = "validateGame" /\ pc = "performance"
    /\ LET after == Absorb(results, "performance",
                           ValidatePerformance(artifact, indexFile = "present"),
                           FALSE, TRUE)
       IN  results' = [after EXCEPT !.grade = calculateGrade(after.score)]
    /\ pc' = "done"
    /\ UNCHANGED << call, gameId, gameMetadata, artifact, indexFile, gameCode, validation,
                    round, previous, lastIndex, pipeline,
                    ref, parked, heap, report, sessionVars >>

\* The caller hands what validateGame returned to generateReport, as
\* saveGameToFiles does.
GenerateReport ==
    /\ call = "validateGame" /\ pc = "done"
    /\ report' = generateReport(results, gameId)
    /\ pc' = "reported"
    /\ UNCHANGED << call, gameId, gameMetadata, artifact, indexFile, gameCode, results,
                    validation, round, previous, lastIndex, pipeline,
                    ref, parked, heap, sessionVars >>

\* Another process deletes index.html while validateGame is suspended (the
\* deletion is followed through the first call on the instance).
RemoveFile ==
    /\ call = "validateGame" /\ pc \notin {"start", "done", "reported"}
    /\ round = 1
    /\ indexFile = "present"
    /\ indexFile' = "removed"
    /\ UNCHANGED << call, gameId, gameMetadata, artifact, gameCode, pc, results, validation,
                    round, previous, lastIndex, pipeline,
                    ref, parked, heap, report, sessionVars >>

\* validateGameCode(gameCode): synchronous, one step.
ValidateGameCode ==
    /\ call = "validateGameCode" /\ pc = "start"
    /\ validation' = validateGameCode(gameCode)
    /\ pc' = "done"
    /\ UNCHANGED << call, gameId, gameMetadata, artifact, indexFile, gameCode, results,
                    round, previous, lastIndex, pipeline,
                    ref, parked, heap, report, sessionVars >>

\* generateFinalGame up to its await of saveGameToFiles: the model's answer
\* arrives, the HTML is cut out of it (an answer without any makes the
\* call throw) and handed to validateGameCode, whose verdict is logged.
GenerateCode ==
    /\ call = "generateFinalGame" /\ pc = "start"
    /\ \/ /\ pipeline' = [pipeline EXCEPT !.attempts = @ + 1, !.success = FALSE]
          /\ pc' = "done"
          /\ UNCHANGED << gameCode, validation >>
       \/ \E code \in GeneratedCodes :
             /\ gameCode' = code
             /\ validation' = validateGameCode(code)
             /\ pipeline' = [pipeline EXCEPT !.attempts = @ + 1, !.validated = TRUE]
             /\ pc' = "save"
    /\ UNCHANGED << call, gameId, gameMetadata, artifact, indexFile, results,
                    round, previous, lastIndex,
                    ref, parked, heap, report, sessionVars >>

\* await this.saveGameToFiles(gameCode, metadata) and the rest of
\* generateFinalGame: a save reported as failed throws into the catch
\* block, a successful one is followed by the registration of the game and
\* the return of success: true.
SaveGame ==
    /\ call = "generateFinalGame" /\ pc = "save"
    /\ \E saveResult \in SaveResults :
              pipeline' = [pipeline EXCEPT
                             !.saved = saveResult.indexWritten \/ saveResult.uploaded,
                             !.success = saveResult.success]
    /\ pc' = "done"
    /\ UNCHANGED << call, gameId, gameMetadata, artifact, indexFile, gameCode, results,
                    validation, round, previous, lastIndex,
                    ref, parked, heap, report, sessionVars >>

\* An artifact some other validateGame call of the same instance works on
\* between the two rounds.
OtherArtifact == MinimalArtifact \cup {"conected"}

\* The caller keeps the returned results and, index.html being what it was
\* before the first call, calls validateGame again with the same arguments;
\* other validations of the instance (here: none, or one of OtherArtifact)
\* may have run in between.
Revalidate ==
    /\ call = "validateGame" /\ pc = "done" /\ round = 1
    /\ ~Concurrent
    /\ indexFile \in {"present", "missing"}
    /\ previous' = results
    /\ results' = NewResults
    /\ round' = 2
    /\ pc' = "start"
    /\ \E between \in {EmptyArtifact, OtherArtifact} :
          lastIndex' = ScanState(extractJavaScriptFromHTML(between))
    /\ UNCHANGED << call, gameId, gameMetadata, artifact, indexFile, gameCode, validation,
                    pipeline,
                    ref, parked, heap, report, sessionVars >>

Next ==
    \/ Start
    \/ StepFiles
    \/ StepHTML
    \/ StepJavaScript
    \/ StepSDK
    \/ StepGenre
    \/ StepPerformance
    \/ GenerateReport
    \/ RemoveFile
    \/ ValidateGameCode
    \/ Revalidate
    \/ GenerateCode
    \/ SaveGame

Spec == Init /\ [][Next]_vars

\* ------------------------------------------- concurrent validateGame calls
\* The arguments and the file state of one of two concurrent calls.
ConcurrentInputs ==
    {[gameId |-> in[2], gameMetadata |-> in[1], artifact |-> a, indexFile |-> f] :
        in \in {<<None, "game-1">>, <<"physics", "game-1">>, <<None, "car-race">>},
        a \in BaseArtifacts,
        f \in {"present", "missing"}}

\* Two validateGame calls on one instance, none of which has run yet: the
\* variables of the sequential model describe the call that runs, parked
\* the one that waits.
InitConcurrent ==
    /\ call = "validateGame"
    /\ \E first \in ConcurrentInputs, second \in ConcurrentInputs :
          /\ gameId = first.gameId /\ gameMetadata = first.gameMetadata
          /\ artifact = first.artifact /\ indexFile = first.indexFile
          /\ parked = [gameId |-> second.gameId, gameMetadata |-> second.gameMetadata,
                       artifact |-> second.artifact, indexFile |-> second.indexFile,
                       pc |-> "start", ref |-> ResultsObject(2)]
    /\ ref = ResultsObject(1)
    /\ heap = [o \in CallNumbers |-> NewResults]
    /\ gameCode = NoCode
    /\ pc = "start"
    /\ results = NewResults
    /\ validation = NewValidation
    /\ round = 1
    /\ previous = None
    /\ lastIndex = [x \in TypoAtoms |-> 0]
    /\ report = << >>
    /\ SessionsNotFollowed
    /\ pipeline = [attempts |-> 0, validated |-> FALSE, saved |-> FALSE,
                   success |-> Undefined]

\* The running call is suspended at its await (or has returned) and the
\* event loop resumes the other call: what the running call wrote stays in
\* its results object, and results now refers to the other call's object.
Switch ==
    /\ Concurrent /\ parked.pc # "done"
    /\ heap' = [heap EXCEPT ![ref] = results]
    /\ results' = heap'[parked.ref]
    /\ ref' = parked.ref
    /\ gameId' = parked.gameId /\ gameMetadata' = parked.gameMetadata
    /\ artifact' = parked.artifact /\ indexFile' = parked.indexFile
    /\ pc' = parked.pc
    /\ parked' = [gameId |-> gameId, gameMetadata |-> gameMetadata,
                  artifact |-> artifact, indexFile |-> indexFile,
                  pc |-> pc, ref |-> ref]
    /\ UNCHANGED << call, gameCode, validation, round, previous, lastIndex, pipeline,
                    report, sessionVars >>

NextConcurrent ==
    \/ Start
    \/ StepFiles
    \/ StepHTML
    \/ StepJavaScript
    \/ StepSDK
    \/ StepGenre
    \/ StepPerformance
    \/ Switch

SpecConcurrent == InitConcurrent /\ [][NextConcurrent]_vars

\* ------------------------------------------------------ session operations
\* The variables of the validator and the single-call pipeline.
validatorVars ==
    << call, gameId, gameMetadata, artifact, indexFile, gameCode, pc, results,
       validation, round, previous, lastIndex, pipeline, ref, parked, heap, report >>

\* c is the next call to be made.
NextCall(c) ==
    /\ calls[c].kind = "none"
    /\ \A d \in 1..(c - 1) : calls[d].kind # "none"

Returned(c, success) == [calls[c] EXCEPT !.pc = "done", !.success = success]

Push(object, role, about) ==
    [sessionObjects EXCEPT
        ![object].conversationHistory = Append(@, << role, about >>)]

\* startNewSession(sessionId) up to await this.generateWelcomeMessage(): a
\* new session object is put into the map (in place of the one that was
\* there, if any).
StartNewSession(c, sessionId) ==
    /\ NextCall(c)
    /\ sessionObjects' = [sessionObjects EXCEPT ![c] = NewSession(sessionId)]
    /\ activeSessions' = [activeSessions EXCEPT ![sessionId] = c]
    /\ calls' = [calls EXCEPT ![c] =
                    [kind |-> "startNewSession", sessionId |-> sessionId,
                     session |-> c, pc |-> "welcome", success |-> "pending", aiResponse |-> NoReply,
                                message |-> "none"]]
    /\ UNCHANGED << effects, validatorVars >>

\* startNewSession after the await: the welcome message is pushed.
WelcomeMessage(c) ==
    /\ calls[c].kind = "startNewSession" /\ calls[c].pc = "welcome"
    /\ sessionObjects' = Push(calls[c].session, "assistant", 0)
    /\ calls' = [calls EXCEPT ![c] = Returned(c, "true")]
    /\ UNCHANGED << activeSessions, effects, validatorVars >>

\* processUserMessage(sessionId, userMessage) up to
\* await this.processFreeformConversation(...): without a session it throws
\* and returns success: false, else the user message is pushed.
ProcessUserMessage(c, sessionId) ==
    /\ NextCall(c)
    /\ LET session == activeSessions[sessionId]
       IN  IF session = 0
           THEN /\ calls' = [calls EXCEPT ![c] =
                               [kind |-> "processUserMessage", sessionId |-> sessionId,
                                session |-> 0, pc |-> "done", success |-> "false", aiResponse |-> NoReply,
                                message |-> "none"]]
                /\ UNCHANGED sessionObjects
           ELSE /\ sessionObjects' = Push(session, "user", c)
                /\ calls' = [calls EXCEPT ![c] =
                               [kind |-> "processUserMessage", sessionId |-> sessionId,
                                session |-> session, pc |-> "ai", success |-> "pending", aiResponse |-> NoReply,
                                message |-> "none"]]
    /\ UNCHANGED << activeSessions, effects, validatorVars >>

\* processFreeformConversation is resumed with the model's answer (or its
\* failure) and settles the promise processUserMessage awaits.
ConversationAnswer(c) ==
    /\ calls[c].kind = "processUserMessage" /\ calls[c].pc = "ai"
    /\ \E aiResponse \in Replies :
          calls' = [calls EXCEPT ![c].pc = "reply", ![c].aiResponse = aiResponse]
    /\ UNCHANGED << activeSessions, sessionObjects, effects, validatorVars >>

\* processUserMessage after the await: the reply is pushed, the session
\* state is updated from response.metadata, and response.message is returned
\* (the apology of processFreeformConversation when the AI call failed).
ConversationReply(c) ==
    /\ calls[c].kind = "processUserMessage" /\ calls[c].pc = "reply"
    /\ LET metadata == processFreeformConversation(calls[c].aiResponse)
           session == calls[c].session
           pushed == Push(session, "assistant", c)
       IN  sessionObjects' = [pushed EXCEPT ![session] = UpdateSession(@, metadata)]
    /\ calls' = [calls EXCEPT ![c] =
                    [Returned(c, "true") EXCEPT
                        !.aiResponse = NoReply,
                        !.message = IF calls[c].aiResponse.failed THEN "apology" ELSE "text"]]
    /\ UNCHANGED << activeSessions, effects, validatorVars >>

\* generateFinalGame(sessionId) up to the request to the model: without a
\* session, or with one that is not ready, it throws and returns
\* success: false (the calls of performanceMonitor, here and in the catch
\* block, are taken to return and to leave the sessions alone); else session.gameRequirements is set and the generation
\* of the game code is requested.
GenerateFinalGame(c, sessionId) ==
    /\ NextCall(c)
    /\ LET session == activeSessions[sessionId]
       IN  IF session = 0 \/ ~ReadyCheck(sessionObjects[session])
           THEN /\ calls' = [calls EXCEPT ![c] =
                               [kind |-> "generateFinalGame", sessionId |-> sessionId,
                                session |-> session, pc |-> "done", success |-> "false", aiResponse |-> NoReply,
                                message |-> "none"]]
                /\ UNCHANGED << sessionObjects, effects >>
           ELSE /\ sessionObjects' =
                      [sessionObjects EXCEPT ![session].gameRequirements = "set"]
                /\ effects' = [effects EXCEPT ![session].generations = @ + 1]
                /\ calls' = [calls EXCEPT ![c] =
                               [kind |-> "generateFinalGame", sessionId |-> sessionId,
                                session |-> session, pc |-> "ai", success |-> "pending", aiResponse |-> NoReply,
                                message |-> "none"]]
    /\ UNCHANGED << activeSessions, validatorVars >>

\* generateFinalGame when the model's answer is in: a failed request or an
\* answer without HTML throws; else the code is validated and handed to
\* saveGameToFiles.
GameReply(c) ==
    /\ calls[c].kind = "generateFinalGame" /\ calls[c].pc = "ai"
    /\ \E hasHtml \in BOOLEAN :
          IF hasHtml
          THEN /\ effects' = [effects EXCEPT ![calls[c].session].validated = @ + 1]
               /\ calls' = [calls EXCEPT ![c].pc = "save"]
          ELSE /\ calls' = [calls EXCEPT ![c] = Returned(c, "false")]
               /\ UNCHANGED effects
    /\ UNCHANGED << activeSessions, sessionObjects, validatorVars >>

\* await this.saveGameToFiles(gameCode, metadata) and what follows: a save
\* reported as failed throws; after one reported as successful the session
\* is marked completed and success: true is returned.
SaveSessionGame(c) ==
    /\ calls[c].kind = "generateFinalGame" /\ calls[c].pc = "save"
    /\ \E saveResult \in SaveResults :
          LET session == calls[c].session
              count(done) == IF done THEN 1 ELSE 0
          IN  /\ effects' = [effects EXCEPT
                                ![session].written = @ + count(saveResult.indexWritten),
                                ![session].uploaded = @ + count(saveResult.uploaded),
                                ![session].rows = @ + count(saveResult.row)]
              /\ IF saveResult.success
                 THEN /\ sessionObjects' =
                            [sessionObjects EXCEPT ![session].stage = "completed",
                                                   ![session].lastUpdated = @ + 1]
                      /\ calls' = [calls EXCEPT ![c] = Returned(c, "true")]
                 ELSE /\ calls' = [calls EXCEPT ![c] = Returned(c, "false")]
                      /\ UNCHANGED sessionObjects
    /\ UNCHANGED << activeSessions, validatorVars >>

InitSession ==
    /\ NoSessions
    /\ call = "session"
    /\ gameMetadata = None /\ gameId = "game-1"
    /\ artifact = {}
    /\ indexFile = "missing"
    /\ gameCode = NoCode
    /\ ref = ResultsObject(1)
    /\ parked = NoCall
    /\ heap = [o \in CallNumbers |-> NewResults]
    /\ pipeline = [attempts |-> 0, validated |-> FALSE, saved |-> FALSE,
                   success |-> Undefined]
    /\ pc = "start"
    /\ results = NewResults
    /\ validation = NewValidation
    /\ round = 1
    /\ previous = None
    /\ lastIndex = [x \in TypoAtoms |-> 0]
    /\ report = << >>

NextSession ==
    \/ \E c \in CallIds, sessionId \in SessionIds : StartNewSession(c, sessionId)
    \/ \E c \in CallIds : WelcomeMessage(c)
    \/ \E c \in CallIds, sessionId \in SessionIds : ProcessUserMessage(c, sessionId)
    \/ \E c \in CallIds : ConversationAnswer(c)
    \/ \E c \in CallIds : ConversationReply(c)
    \/ \E c \in CallIds, sessionId \in SessionIds : GenerateFinalGame(c, sessionId)
    \/ \E c \in CallIds : GameReply(c)
    \/ \E c \in CallIds : SaveSessionGame(c)

SpecSession == InitSession /\ [][NextSession]_vars

\* ------------------------------------------------------------ properties
Range(seq) == {seq[i] : i \in 1..Len(seq)}

GameReturned == call = "validateGame" /\ pc = "done"

CodeReturned == call = "validateGameCode" /\ pc = "done"

\* index.html stayed readable for the whole call (it is never re-created).
FileStayed == indexFile = "present"

BasicCategories == {"files", "html", "javascript", "sdk", "performance"}

\* The category objects validateGame computes for a readable artifact.
CategoryOf(name, htmlContent) ==
    CASE name = "files" -> ValidateFileStructure(htmlContent, TRUE)
      [] name = "html" -> ValidateHTML(htmlContent, TRUE)
      [] name = "javascript" -> ValidateJavaScript(htmlContent, TRUE)
      [] name = "sdk" -> ValidateSDKIntegration(htmlContent, TRUE)
      [] OTHER -> ValidatePerformance(htmlContent, TRUE)

\* C1: in every validation result, of validateGame and of validateGameCode,
\* every category's score lies between 0 and that category's maximum,
\* whatever the input.
C1_CategoryScoreWithinBounds ==
    /\ \A c \in DOMAIN results.details :
          /\ 0 <= results.details[c].score
          /\ results.details[c].score <= results.details[c].maxScore
    /\ \A c \in DOMAIN validation.details :
          /\ 0 <= validation.details[c].score
          /\ validation.details[c].score <= validation.details[c].max

\* C1 witness: a script of one stray brace and no required pattern has been
\* scored: the raw script-logic score is 0 - 2 and the category reports 0.
C1_Witness ==
    /\ GameReturned /\ FileStayed
    /\ artifact = {"{"}
    /\ "brace imbalance" \in Range(results.errors)
    /\ results.details["javascript"].score = 0

\* The artifact satisfies every mandatory rule of every category and every
\* pattern and feature of the physics and arcade bundles, and holds nothing
\* that a rule penalises.
PerfectArtifact ==
    /\ FullArtifact \subseteq artifact
    /\ artifact \cap {"createSession.early", "{", "}", "srcAssign"} = {}

\* C2: an artifact that satisfies every mandatory rule in every category and
\* every pattern and feature of its genre bundle is scored maxScore (130)
\* and is valid.
C2_PerfectArtifactScoresMax ==
    (GameReturned /\ FileStayed /\ PerfectArtifact
        /\ results.genre \in {"physics", "arcade"})
    => (results.score = results.maxScore /\ results.isValid)

\* C3: in every returned result isValid is true exactly when the errors list
\* is empty and the score is at least the pass threshold 80.
C3_ValidIffNoErrorsAndThreshold ==
    /\ GameReturned =>
          (results.isValid <=> (results.errors = << >> /\ results.score >= 80))
    /\ CodeReturned =>
          (validation.isValid <=> (validation.errors = << >> /\ validation.score >= 80))

\* C4: validateGame always returns a complete result: score, maxScore, grade,
\* isValid, errors, warnings and suggestions are all defined.
C4_ResultComplete ==
    GameReturned =>
        /\ results.grade # Undefined
        /\ results.score \in Int /\ results.maxScore \in Int
        /\ results.isValid \in BOOLEAN

\* C5: a fault while one category is evaluated zeroes only that category:
\* every other category is still evaluated and contributes the score it
\* has for the artifact.
C5_FaultIsolated ==
    GameReturned =>
        /\ BasicCategories \subseteq DOMAIN results.details
        /\ FileStayed =>
              \A c \in BasicCategories :
                  results.details[c].score = CategoryOf(c, artifact).score

\* C6: for empty markup the structure category raises nothing, reports every
\* required element as an error and scores 0, and the remaining categories
\* (script-logic, integration, genre, performance) are still evaluated.
C6_EmptyMarkupDegrades ==
    /\ (GameReturned /\ FileStayed /\ artifact \cap HtmlAtoms = {}) =>
          /\ "html" \in DOMAIN results.details
          /\ results.details["html"].score = 0
          /\ "HTML parse error" \notin Range(results.errors)
          /\ \A i \in 1..Len(requiredElements) :
                ("missing element: " \o requiredElements[i].name) \in Range(results.errors)
          /\ {"javascript", "sdk", "performance"} \subseteq DOMAIN results.details
          /\ results.genre # None => "genreCompliance" \in DOMAIN results.details
    /\ (CodeReturned /\ gameCode.isString /\ gameCode.text = {}) =>
          /\ validation.details["structure"].score = 0
          /\ {"no HTML5 DOCTYPE", "HTML tag incomplete"} \subseteq Range(validation.errors)

\* The genre label is absent or matches no bundle, and the game id holds no
\* genre keyword.
UnknownGenreLabel ==
    /\ gameId = "game-1"
    /\ gameMetadata = None \/ ToLowerCase(gameMetadata) \notin BundleKeys

\* C7: an absent or unrecognised genre label records no error, contributes 0
\* to the score, produces no recommendations, and leaves isValid as it is
\* for the same artifact without a genre.
C7_UnknownGenreIsNeutral ==
    (GameReturned /\ FileStayed /\ UnknownGenreLabel) =>
        /\ "validation process error" \notin Range(results.errors)
        /\ results.genreCompliance \in {None, << >>}
        /\ results.score = SumOver([c \in BasicCategories |-> CategoryOf(c, artifact).score],
                                   << "files", "html", "javascript", "sdk", "performance" >>)
        /\ results.isValid <=>
              (\A c \in BasicCategories : CategoryOf(c, artifact).errors = << >>)

\* No canvas element, no required script reference, no SDK integration code.
ScenarioA ==
    /\ artifact \cap {"canvas#game-canvas", "canvas#gameCanvas", "canvas"} = {}
    /\ artifact \cap SrcAtoms = {}
    /\ artifact \cap {"createSession.early", "sdkInit", "sdkBare", "onConnected",
                      "onConnectedDq", "createSession", "onSessionCreated",
                      "onSensorData", "unwrap", "QRGen"} = {}

\* C8: without canvas, script references, SDK code and genre, the structure
\* and the integration category both score 0, at least two mandatory
\* element errors are reported and the result is invalid.
C8_ScenarioA ==
    (GameReturned /\ FileStayed /\ ScenarioA /\ results.genre = None) =>
        /\ results.details["html"].score = 0
        /\ results.details["sdk"].score = 0
        /\ Len(results.details["html"].errors) >= 2
        /\ ~results.isValid

\* The file text matches the i-th pattern of the physics bundle.
PhysicsMatch(i) ==
    artifact \cap HtmlAtoms \cap genreSpecificRules["physics"].requiredPatterns[i].hits # {}

\* Genre "physics": gravity, velocity and collision match, no trigonometric
\* function does.
ScenarioC ==
    /\ GameReturned /\ FileStayed
    /\ results.genre = "physics"
    /\ PhysicsMatch(1) /\ PhysicsMatch(3) /\ PhysicsMatch(4) /\ ~PhysicsMatch(5)

\* The items of the recommendation group named category (none if absent).
ItemsOf(recommendations, category) ==
    Flatten([i \in 1..Len(recommendations) |->
                IF recommendations[i].category = category
                THEN recommendations[i].items ELSE << >>])

AllItems(recommendations) ==
    Flatten([i \in 1..Len(recommendations) |-> recommendations[i].items])

WithoutExtraBrace == artifact \ {"{"}

\* The call validated an artifact with a stray opening brace in its inline
\* script and index.html stayed readable.
ScenarioD == GameReturned /\ FileStayed /\ "{" \in artifact

\* The effect C10 describes, against the same call on the artifact without
\* the brace: one more error, script-logic lower by the penalty 2 (not
\* below 0), every other category the same.
ExtraBraceEffect ==
    LET first == [c \in BasicCategories |-> CategoryOf(c, WithoutExtraBrace)]
        second == results.details
    IN  /\ Len(second["javascript"].errors) = Len(first["javascript"].errors) + 1
        /\ "brace imbalance" \in Range(second["javascript"].errors)
        /\ "brace imbalance" \notin Range(first["javascript"].errors)
        /\ second["javascript"].score = Max(0, first["javascript"].score - 2)
        /\ \A c \in (DOMAIN second) \ {"javascript"} :
              IF c = "genreCompliance"
              THEN second[c].score
                     = ValidateGenreSpecifics(WithoutExtraBrace, results.genre).score
              ELSE second[c] = first[c]

\* C10 as stated: for any two artifacts that differ only in one extra
\* unmatched opening brace in the inline script.
C10_ExtraBrace_Original == ScenarioD => ExtraBraceEffect

\* C10 amended: provided the inline script of the first artifact is not
\* empty and its braces are balanced.
C10_ExtraBrace ==
    (/\ ScenarioD
     /\ extractJavaScriptFromHTML(WithoutExtraBrace) # << >>
     /\ basicSyntaxCheck(extractJavaScriptFromHTML(WithoutExtraBrace)).errors = << >>)
    => ExtraBraceEffect

\* C10 witness: the full artifact plus one stray opening brace has been
\* validated and lost exactly the penalty.
C10_Witness ==
    /\ ScenarioD
    /\ WithoutExtraBrace = FullArtifact
    /\ results.details["javascript"].score = 30

\* The elements that satisfy the i-th mandatory element rule.
RuleElements(i) ==
    UNION {SelectorMatches(s) : s \in Range(requiredElements[i].selectors)}

\* The mandatory element rules the artifact leaves unsatisfied.
UnsatisfiedRules(htmlContent) ==
    {i \in 1..Len(requiredElements) : htmlContent \cap RuleElements(i) = {}}

\* The "missing element" errors of a findings list, in order.
MissingElementErrors(errors) ==
    SelectSeq(errors, LAMBDA e :
        \E i \in 1..Len(requiredElements) :
            e = "missing element: " \o requiredElements[i].name)

\* C11: an artifact that satisfies every mandatory element rule but one has
\* a structure score lower than that of the same artifact with the rule
\* satisfied by the rule's share 20/3 of the element weight, up to rounding,
\* and exactly one missing-element error, which names the unsatisfied rule.
C11_OneMissingElement ==
    (/\ GameReturned /\ FileStayed
     /\ Cardinality(UnsatisfiedRules(artifact)) = 1)
    => LET i == CHOOSE r \in UnsatisfiedRules(artifact) : TRUE
           satisfying == artifact \cup {requiredElements[i].selectors[1]}
           drop == ValidateHTML(satisfying, TRUE).score - results.details["html"].score
       IN  /\ UnsatisfiedRules(satisfying) = {}
           /\ 3 * drop - 20 < 3 /\ 20 - 3 * drop < 3
           /\ MissingElementErrors(results.errors)
                 = << "missing element: " \o requiredElements[i].name >>
           /\ MissingElementErrors(results.details["html"].errors)
                 = << "missing element: " \o requiredElements[i].name >>

\* C11 witness: the minimal artifact without its QR container has been
\* validated: two of three rules found, 13 + 5 points.
C11_Witness ==
    /\ GameReturned /\ FileStayed
    /\ artifact = MinimalArtifact \ {"#qr-container"}
    /\ UnsatisfiedRules(artifact) = {3}
    /\ results.details["html"].score = 18

\* The second of two validateGame calls with the same arguments has
\* returned, and index.html was the same for both (there throughout, or
\* never there).
SecondReturned ==
    GameReturned /\ round = 2 /\ indexFile \in {"present", "missing"}

\* C12: validating the same input twice with the same validator instance,
\* in sequence and with other validations in between, yields identical
\* results: score, grade, isValid, per-category details and the errors,
\* warnings and suggestions in the same order; no expression or registry
\* state left by an earlier call changes a later one.
C12_Idempotent == SecondReturned => results = previous

\* C12 witness: an artifact with a misspelt identifier in a script of the
\* full artifact has been validated twice, and both calls warned about it.
C12_Witness ==
    /\ SecondReturned /\ FileStayed
    /\ artifact = FullArtifact \cup {"sesion"}
    /\ "possible typo: sesion" \in Range(results.warnings)
    /\ "possible typo: sesion" \in Range(previous.warnings)
    /\ results.score = previous.score /\ results.grade = previous.grade

\* The grades from worst to best, each with the least score that earns it.
GradeTable ==
    << [grade |-> "F", least |-> 0], [grade |-> "C", least |-> 50],
       [grade |-> "B", least |-> 60], [grade |-> "B+", least |-> 70],
       [grade |-> "A", least |-> 80], [grade |-> "A+", least |-> 90] >>

\* Position of a grade in GradeTable: a higher rank is a better grade.
GradeRank(grade) == CHOOSE i \in 1..Len(GradeTable) : GradeTable[i].grade = grade

\* C13: the grade is a function of the composite score alone, with
\* thresholds A+ >= 90, A >= 80, B+ >= 70, B >= 60, C >= 50, else F, and it
\* is non-decreasing in the score.
C13_GradeMonotone ==
    (GameReturned /\ results.grade # Undefined) =>
        LET rank == GradeRank(results.grade)
        IN  /\ results.grade = calculateGrade(results.score)
            /\ \A i \in 1..Len(GradeTable) :
                  results.score >= GradeTable[i].least <=> rank >= i
            /\ \A s \in 0..results.maxScore :
                  /\ s <= results.score => GradeRank(calculateGrade(s)) <= rank
                  /\ s >= results.score => GradeRank(calculateGrade(s)) >= rank

\* C13 witness: the minimal artifact has been graded: 77 points, grade B+.
C13_Witness ==
    /\ GameReturned /\ FileStayed
    /\ artifact = MinimalArtifact /\ results.genre = None
    /\ results.score = 77 /\ results.grade = "B+"

Clamp(x, lo, hi) == Max(lo, Min(x, hi))

\* The categories of validateGame in the order it evaluates them.
GameCategories ==
    << "files", "html", "javascript", "sdk", "genreCompliance", "performance" >>

\* Sum of the clamped scores of the categories a validateGame result holds.
ClampedSum(details) ==
    SumOver([c \in DOMAIN details |-> Clamp(details[c].score, 0, details[c].maxScore)],
            SelectSeq(GameCategories, LAMBDA c : c \in DOMAIN details))

\* Sum of the clamped scores of the categories of a validateGameCode result.
CodeClampedSum(details) ==
    SumOver([c \in DOMAIN details |-> Clamp(details[c].score, 0, details[c].max)],
            CodeCategories)

\* C14: in every returned result the composite score is the sum over the
\* categories of the category score clamped to [0, category max], and lies
\* in 0..maxScore, also on the return paths taken after an exception.
C14_ScoreIsClampedSum ==
    /\ GameReturned =>
          /\ DOMAIN results.details \subseteq Range(GameCategories)
          /\ results.score = ClampedSum(results.details)
          /\ 0 <= results.score /\ results.score <= results.maxScore
    /\ CodeReturned =>
          /\ validation.score = CodeClampedSum(validation.details)
          /\ 0 <= validation.score
          /\ validation.score <= SumOver(CodeMax, CodeCategories)

\* C14 witness: validateGame has returned from its catch block with the
\* points of the four categories evaluated before the genre step.
C14_Witness ==
    /\ GameReturned /\ FileStayed
    /\ "validation process error" \in Range(results.errors)
    /\ DOMAIN results.details = {"files", "html", "javascript", "sdk"}
    /\ results.score = 97 - 10

\* generateFinalGame has returned after validating a generated artifact.
PipelineReturned ==
    call = "generateFinalGame" /\ pc = "done" /\ pipeline.validated

\* C15: when the validation of a freshly generated artifact yields isValid
\* false or a score below minQualityScore, generateFinalGame does not accept
\* the artifact: it is neither saved nor reported as a success, and at most
\* maxRetries further generations are made.
C15_PipelineRejectsLowQuality ==
    /\ (PipelineReturned /\ (~validation.isValid \/ validation.score < minQualityScore))
          => (~pipeline.saved /\ pipeline.success # TRUE)
    /\ pipeline.attempts <= 1 + maxRetries

\* What validateGame returns when it runs alone and index.html is readable
\* (or unreadable) from its first await to its last.
ValidateGameAlone(metaGenre, id, htmlContent, readable) ==
    LET genre == extractGenreInfo(metaGenre, id)
        r0 == [NewResults EXCEPT !.genre = genre]
        r1 == Absorb(r0, "files", ValidateFileStructure(htmlContent, readable), FALSE, FALSE)
        r2 == Absorb(r1, "html", ValidateHTML(htmlContent, readable), TRUE, FALSE)
        r3 == Absorb(r2, "javascript", ValidateJavaScript(htmlContent, readable), TRUE, TRUE)
        r4 == Absorb(r3, "sdk", ValidateSDKIntegration(htmlContent, readable), FALSE, TRUE)
        gv == ValidateGenreSpecifics(htmlContent, genre)
        r5 == [r4 EXCEPT
                 !.details = SetDetail(@, "genreCompliance",
                                 [score |-> gv.score, maxScore |-> gv.maxScore,
                                  patternScore |-> gv.patternScore,
                                  featureScore |-> gv.featureScore,
                                  errors |-> << >>, warnings |-> << >>,
                                  suggestions |-> << >>]),
                 !.genreCompliance = gv.recommendations,
                 !.score = @ + gv.score,
                 !.suggestions = @ \o RecommendationLines(gv.recommendations)]
        last(r) == LET after == Absorb(r, "performance",
                                       ValidatePerformance(htmlContent, readable),
                                       FALSE, TRUE)
                   IN  [after EXCEPT !.grade = calculateGrade(after.score)]
    IN  IF genre = None THEN last(r4)
        ELSE IF ~readable \/ gv.thrown THEN ProcessError(r4)
        ELSE last(r5)

\* The results object of the suspended call.
ParkedResults == IF parked.ref = ref THEN results ELSE heap[parked.ref]

\* C16: validateGame calls that run concurrently on one instance,
\* interleaved at their awaits, each return what they return when run
\* alone, and no two calls share a results object.
C16_ConcurrentAsAlone ==
    Concurrent =>
        /\ parked.ref # ref
        /\ pc = "done" =>
              results = ValidateGameAlone(gameMetadata, gameId, artifact,
                                          indexFile = "present")
        /\ parked.pc = "done" =>
              ParkedResults = ValidateGameAlone(parked.gameMetadata, parked.gameId,
                                                parked.artifact,
                                                parked.indexFile = "present")

\* C16 witness: the second call, on the minimal artifact, has returned its
\* 77 points while the first call, on the full artifact with genre physics,
\* is suspended at its fourth await with the points gathered so far.
C16_Witness ==
    /\ Concurrent /\ ref = 1 /\ pc = "sdk"
    /\ artifact = FullArtifact /\ gameMetadata = "physics"
    /\ results.score = 10 + 25 + 32
    /\ parked.pc = "done" /\ parked.artifact = MinimalArtifact
    /\ ParkedResults.score = 77 /\ ParkedResults.grade = "B+"

\* The fragments matched by the readiness expression
\* /sdk\.on\s*\(\s*['"`]connected['"`]/ and by the start expression
\* /createSession\s*\(\s*\)/ of the ordering check.
ReadinessAtoms == {"onConnected", "onConnectedDq"}
StartAtoms == {"createSession.early", "createSession"}

OrderingError == "createSession() called before connected listener"

\* Some start occurrence lies before every readiness occurrence, and there
\* is a readiness occurrence.
StartPrecedesReadiness(jsCode) ==
    /\ Has(jsCode, ReadinessAtoms)
    /\ \E i \in 1..Len(jsCode) :
          /\ jsCode[i] \in StartAtoms
          /\ \A j \in 1..Len(jsCode) : jsCode[j] \in ReadinessAtoms => i < j

\* The script text without the occurrences of the two patterns that follow
\* an earlier occurrence of the same pattern.
FirstOccurrencesOnly(jsCode) ==
    LET later == {jsCode[i] : i \in {k \in 1..Len(jsCode) :
                     \/ /\ jsCode[k] \in ReadinessAtoms
                        /\ \E j \in 1..(k - 1) : jsCode[j] \in ReadinessAtoms
                     \/ /\ jsCode[k] \in StartAtoms
                        /\ \E j \in 1..(k - 1) : jsCode[j] \in StartAtoms}}
    IN  SelectSeq(jsCode, LAMBDA x : x \notin later)

\* C17: the ordering check emits an ordering error if and only if the
\* readiness and the start pattern both occur in the script text and the
\* first start occurrence lies before the first readiness occurrence; later
\* occurrences of either pattern do not change the outcome.
C17_OrderingCheck ==
    (GameReturned /\ FileStayed) =>
        LET jsCode == extractJavaScriptFromHTML(artifact)
        IN  /\ OrderingError \in Range(results.errors) <=> StartPrecedesReadiness(jsCode)
            /\ OrderingError \in Range(results.details["sdk"].errors)
                  <=> StartPrecedesReadiness(FirstOccurrencesOnly(jsCode))
            /\ checkEventListenerOrder(jsCode).isValid
                  <=> OrderingError \notin Range(results.errors)

\* C17 witness: a script that calls createSession() before and after the
\* connected listener has been validated and the ordering error reported.
C17_Witness ==
    /\ GameReturned /\ FileStayed
    /\ artifact = MinimalArtifact \cup {"createSession.early"}
    /\ OrderingError \in Range(results.errors)
    /\ results.details["sdk"].score = 18 - 8

\* The findings the two validators attach to a missing unwrapping idiom.
UnwrapFindings ==
    {"missing pattern: CustomEvent pattern", "CustomEvent pattern missing"}

\* C18: absence of the event-payload-unwrapping idiom (event.detail ||
\* event) produces a warning only: it adds no entry to the errors and does
\* not by itself make isValid false; its presence adds a bonus to the score.
C18_UnwrapAbsenceWarnsOnly ==
    /\ (GameReturned /\ FileStayed /\ "unwrap" \notin artifact) =>
          LET with == ValidateGameAlone(gameMetadata, gameId,
                                        artifact \cup {"unwrap"}, TRUE)
          IN  /\ Range(results.errors) \cap UnwrapFindings = {}
              /\ with.isValid => results.isValid
              /\ with.score >= results.score
    /\ (CodeReturned /\ gameCode.isString
            /\ "event.detail || event" \notin gameCode.text) =>
          LET with == validateGameCode([gameCode EXCEPT
                          !.text = @ \cup {"event.detail || event"}])
          IN  /\ Range(validation.errors) \cap UnwrapFindings = {}
              /\ "CustomEvent pattern missing" \in Range(validation.warnings)
              /\ with.isValid /\ validation.score >= 80 => validation.isValid
              /\ with.details["sessionSDK"].score >= validation.details["sessionSDK"].score

\* The bundle keys a genre label contains, letter case aside, for the
\* labels used as input.
BundleKeysIn(label) ==
    CASE label = "physics" -> {"physics"}
      [] label = "Arcade" -> {"arcade"}
      [] label = "physics-puzzle" -> {"physics", "puzzle"}
      [] OTHER -> {}

\* C19: a genre label that equals a bundle key up to letter case, or that
\* contains a bundle key as a substring, selects that bundle and the
\* artifact is scored against it.
C19_GenreLookup ==
    (GameReturned /\ FileStayed /\ gameMetadata # None
        /\ BundleKeysIn(gameMetadata) # {}) =>
        /\ "genreCompliance" \in DOMAIN results.details
        /\ \E key \in BundleKeysIn(gameMetadata) :
              LET scored == ValidateGenreSpecifics(artifact, key)
              IN  /\ results.details["genreCompliance"].score = scored.score
                  /\ results.genreCompliance = scored.recommendations

\* The bodies, in document order, of the script blocks whose tag carries no
\* src attribute: the main block and the renderer block.
InlineScriptText(htmlContent) ==
    TextOf(htmlContent \cap MainAtoms) \o TextOf(htmlContent \cap AuxAtoms)

\* C20: the script text the pattern analyzer scans is exactly the
\* concatenation, in document order, of the bodies of the script blocks
\* without src attribute: every inline block is included whatever its body
\* contains, and no block that references an external resource is.
C20_InlineScriptExtraction ==
    (GameReturned /\ FileStayed) =>
        /\ extractJavaScriptFromHTML(artifact) = InlineScriptText(artifact)
        /\ ("performance" \in DOMAIN results.details
                /\ {"clearRect", "fillRect"} \subseteq artifact)
              => "basic canvas rendering" \in Range(results.suggestions)
        /\ artifact \cap (MainAtoms \cup AuxAtoms) # {}
              => "no JavaScript code" \notin Range(results.errors)

\* The patterns and the features of the bundle of genre that the file text
\* does not satisfy.
UnsatisfiedPatterns(htmlContent, genre) ==
    LET patterns == genreSpecificRules[genre].requiredPatterns
    IN  {i \in 1..Len(patterns) : htmlContent \cap HtmlAtoms \cap patterns[i].hits = {}}

UnsatisfiedFeatures(htmlContent, genre) ==
    LET features == genreSpecificRules[genre].keyFeatures
    IN  {i \in 1..Len(features) :
            htmlContent \cap HtmlAtoms \cap keywordMap(features[i]) = {}}

\* C21: for a genre that matches a bundle, the unsatisfied patterns and
\* features of the bundle are reported as recommendations only, the
\* patterns in the missing-capability group and the features in the
\* recommended-feature group, each shown under suggestions; the errors
\* list and isValid are what they are for the same artifact without genre.
C21_GenreFindingsAreRecommendations ==
    (GameReturned /\ FileStayed /\ results.genre \in BundleKeys) =>
        LET rules == genreSpecificRules[results.genre]
            plain == ValidateGameAlone(None, "game-1", artifact, TRUE)
            capability == ItemsOf(results.genreCompliance, "missing core capability")
            feature == ItemsOf(results.genreCompliance, "recommended feature")
        IN  /\ results.errors = plain.errors
            /\ results.isValid = plain.isValid
            /\ Range(capability) =
                  {"implement pattern: " \o rules.requiredPatterns[i].re :
                      i \in UnsatisfiedPatterns(artifact, results.genre)}
            /\ Range(feature) =
                  {rules.keyFeatures[i] \o " recommended" :
                      i \in UnsatisfiedFeatures(artifact, results.genre)}
            /\ Len(AllItems(results.genreCompliance)) = Len(capability) + Len(feature)
            /\ \A item \in Range(capability) \cup Range(feature) :
                  ("  - " \o item) \in Range(results.suggestions)

\* C21 witness: a physics artifact with unsatisfied patterns and features
\* has been validated and is valid.
C21_Witness ==
    /\ GameReturned /\ FileStayed /\ results.genre = "physics"
    /\ UnsatisfiedPatterns(artifact, "physics") # {}
    /\ UnsatisfiedFeatures(artifact, "physics") # {}
    /\ results.isValid
    /\ results.errors = << >>

\* patternMap of getPatternName: the labels, in the order of the generic
\* required-pattern list.
PatternLabels ==
    << "SessionSDK init", "connected listener", "session-created listener",
       "sensor-data listener", "CustomEvent pattern", "createSession call",
       "animation loop", "canvas 2D context" >>

\* The required patterns that do not occur in the script text.
MissingPatterns(jsCode) ==
    {i \in 1..Len(requiredPatterns) : ~Has(jsCode, requiredPatterns[i].hits)}

\* How often entry occurs in list.
Occurrences(list, entry) == Cardinality({k \in 1..Len(list) : list[k] = entry})

\* C23: for non-empty script text the required-pattern coverage sub-score
\* is round(found / total * 25) over the eight generic required patterns
\* (the script-logic score is that sub-score less 2 per syntax error plus
\* the bonuses, floored at 0), and the errors hold exactly one named error
\* per required pattern that does not occur and none for one that occurs.
C23_RequiredPatternCoverage ==
    (GameReturned /\ FileStayed /\ extractJavaScriptFromHTML(artifact) # << >>) =>
        LET jsCode == extractJavaScriptFromHTML(artifact)
            js == results.details["javascript"]
            missing == MissingPatterns(jsCode)
            coverage == RoundShare(8 - Cardinality(missing), 8, 25)
            penalty == 2 * Len(basicSyntaxCheck(jsCode).errors)
            bonus == (IF Has(jsCode, {"try"}) /\ Has(jsCode, {"catch"}) THEN 3 ELSE 0)
                       + (IF Has(jsCode, {"rAF"}) THEN 2 ELSE 0)
                       + (IF Has(jsCode, {"maxmin"}) THEN 2 ELSE 0)
        IN  /\ Len(requiredPatterns) = 8
            /\ js.score = Max(0, coverage - penalty + bonus)
            /\ \A i \in 1..8 :
                  LET named == "missing pattern: " \o PatternLabels[i]
                      expected == IF i \in missing THEN 1 ELSE 0
                  IN  /\ Occurrences(js.errors, named) = expected
                      /\ Occurrences(results.errors, named) = expected
            /\ Cardinality({k \in 1..Len(js.errors) :
                               \E i \in 1..8 :
                                  js.errors[k] = "missing pattern: " \o PatternLabels[i]})
                  = Cardinality(missing)

\* C23 witness: a script with seven of the eight required patterns (no
\* animation loop) and neither syntax error nor bonus has been scored
\* round(7/8 * 25) = 22, with one error.
C23_Witness ==
    /\ GameReturned /\ FileStayed
    /\ MissingPatterns(extractJavaScriptFromHTML(artifact)) = {7}
    /\ results.details["javascript"].score = 22
    /\ results.details["javascript"].errors = << "missing pattern: animation loop" >>

\* The category scores of a result.
ScoresOf(details) == [c \in DOMAIN details |-> details[c].score]

\* The artifact of this call with its misspelt identifiers left out.
WithoutTypos == artifact \ TypoAtoms

\* The script of this call holds a misspelt identifier beside other code.
MisspeltScript ==
    /\ artifact \cap TypoAtoms # {}
    /\ extractJavaScriptFromHTML(WithoutTypos) # << >>

C25_WarningsKept ==
    GameReturned =>
        \A c \in DOMAIN results.details :
            Range(results.details[c].warnings) \subseteq Range(results.warnings)

\* generateReport has rendered what validateGame returned.
Reported == call = "validateGame" /\ pc = "reported"

\* The categories in enumeration order.
CategoryOrder ==
    << "files", "html", "javascript", "sdk", "genreCompliance", "performance" >>

\* The entries of the given kind that the category of rank r put into the
\* result (the genre category's suggestions are its rendered recommendations).
EntriesOf(kind, r) ==
    LET c == CategoryOrder[r]
    IN  IF c \notin DOMAIN results.details THEN {}
        ELSE IF c = "genreCompliance"
        THEN (IF kind = "suggestions"
              THEN Range(RecommendationLines(results.genreCompliance)) ELSE {})
        ELSE Range(results.details[c][kind])

\* What each category, in enumeration order, put into the list of the kind.
CategoryEntries(kind) ==
    << EntriesOf(kind, 1), EntriesOf(kind, 2), EntriesOf(kind, 3),
       EntriesOf(kind, 4), EntriesOf(kind, 5), EntriesOf(kind, 6) >>

\* The rank of the first category an entry comes from; 7 for the entry of
\* the catch block, which comes from no category.
RankIn(entries, entry) ==
    IF entry \in entries[1] THEN 1
    ELSE IF entry \in entries[2] THEN 2
    ELSE IF entry \in entries[3] THEN 3
    ELSE IF entry \in entries[4] THEN 4
    ELSE IF entry \in entries[5] THEN 5
    ELSE IF entry \in entries[6] THEN 6
    ELSE 7

RankOf(kind, entry) == RankIn(CategoryEntries(kind), entry)

InCategoryOrder(kind) ==
    LET list == results[kind]
        entries == CategoryEntries(kind)
    IN  \A i \in 1..(Len(list) - 1) :
            RankIn(entries, list[i]) <= RankIn(entries, list[i + 1])

\* A section of the report: nothing for an empty list, else a heading and
\* the entries numbered from 1 in list order.
NumberedSection(heading, list) ==
    IF list = << >> THEN << >>
    ELSE << heading \o " (" \o ToString(Len(list)) \o "):" >>
         \o [k \in 1..Len(list) |-> "  " \o ToString(k) \o ". " \o list[k]]

\* C22: in each of the errors, warnings and suggestions lists the entries
\* stand in category enumeration order, and the report renders, after its
\* four header lines, the errors, then the warnings, then the suggestions,
\* each numbered from 1 in list order and left out when the list is empty.
C22_FindingsAndReportOrder ==
    Reported =>
        /\ InCategoryOrder("errors")
        /\ InCategoryOrder("warnings")
        /\ InCategoryOrder("suggestions")
        /\ Len(report) >= 5
        /\ SubSeq(report, 5, Len(report) - 1)
              = NumberedSection("errors", results.errors)
                  \o NumberedSection("warnings", results.warnings)
                  \o NumberedSection("suggestions", results.suggestions)

\* C22 witness: a report with errors of two categories, a warning and
\* suggestions of the genre and the performance category has been rendered.
C22_Witness ==
    /\ Reported
    /\ \E i, j \in 1..Len(results.errors) :
          RankOf("errors", results.errors[i]) = 2 /\ RankOf("errors", results.errors[j]) = 4
    /\ results.warnings # << >>
    /\ \E i, j \in 1..Len(results.suggestions) :
          /\ RankOf("suggestions", results.suggestions[i]) = 5
          /\ RankOf("suggestions", results.suggestions[j]) = 6

\* ------------------------------------------------- session-level properties
\* The save step of generateFinalGame call c has just been taken.
SaveReturned(c) == calls[c].pc = "save" /\ calls'[c].pc = "done"

\* C26: whenever saveGameToFiles has written the game's index.html locally,
\* or uploaded it and inserted its database row, it returns success: true,
\* so generateFinalGame returns success: true and the session's stage is
\* 'completed'.
C26_PersistedMeansSuccess ==
    [][\A c \in CallIds :
          LET session == calls[c].session
          IN  (/\ SaveReturned(c)
               /\ \/ effects'[session].written > effects[session].written
                  \/ effects'[session].rows > effects[session].rows)
              => /\ calls'[c].success = "true"
                 /\ sessionObjects'[session].stage = "completed"]_vars

\* All calls made so far have returned.
Quiescent == \A c \in CallIds : calls[c].pc \in {"idle", "done"}

\* The history starts with an assistant message, roles alternate, and each
\* user message is directly followed by the assistant reply to it.
WellFormed(history) ==
    /\ Len(history) >= 1
    /\ history[1][1] = "assistant"
    /\ \A i \in 1..Len(history) :
          history[i][1] = "user" =>
              /\ i < Len(history)
              /\ history[i + 1] = << "assistant", history[i][2] >>
    /\ \A i \in 1..(Len(history) - 1) : history[i][1] # history[i + 1][1]

\* C27: once the startNewSession and processUserMessage calls made on a
\* session have returned (overlapping ones included), its
\* conversationHistory starts with an assistant message and alternates
\* assistant, user, assistant, ..., each user message directly followed by
\* the reply to it.
C27_HistoryAlternates ==
    Quiescent =>
        \A sessionId \in SessionIds :
            activeSessions[sessionId] # 0 =>
                WellFormed(sessionObjects[activeSessions[sessionId]].conversationHistory)

\* The generateFinalGame calls on session object o that are under way.
Generating(o) ==
    {c \in CallIds : /\ calls[c].kind = "generateFinalGame"
                     /\ calls[c].session = o
                     /\ calls[c].pc \in {"ai", "save"}}

\* C28: per session at most one generation is in progress at any time, and
\* at most one game is saved.
C28_OneGenerationPerSession ==
    \A o \in CallIds :
        /\ Cardinality(Generating(o)) <= 1
        /\ effects[o].written <= 1
        /\ effects[o].uploaded <= 1

\* Call c is made in this step, as a generateFinalGame call.
GenerateFinalGameCalled(c) == NextCall(c) /\ calls'[c].kind = "generateFinalGame"

\* C29: generateFinalGame on an unknown sessionId, or on a session whose
\* readyToGenerate is false, returns success: false at once: no generation
\* is requested, nothing is validated or saved, and the session map and
\* every session object stay as they are.
C29_RefusedGenerationChangesNothing ==
    [][\A c \in CallIds :
          (/\ GenerateFinalGameCalled(c)
           /\ \/ activeSessions[calls'[c].sessionId] = 0
              \/ ~sessionObjects[activeSessions[calls'[c].sessionId]].readyToGenerate)
          => /\ calls'[c].pc = "done"
             /\ calls'[c].success = "false"
             /\ UNCHANGED << activeSessions, sessionObjects, effects >>]_vars

\* One generateFinalGame call was refused for an unknown sessionId, another
\* for a session that had a conversation but was not ready; nothing was
\* generated, validated or saved.
C29_Witness ==
    /\ \E c \in CallIds :
          /\ calls[c].kind = "generateFinalGame" /\ calls[c].session = 0
          /\ calls[c].pc = "done" /\ calls[c].success = "false"
    /\ \E c \in CallIds :
          /\ calls[c].kind = "generateFinalGame" /\ calls[c].session # 0
          /\ calls[c].pc = "done" /\ calls[c].success = "false"
          /\ ~sessionObjects[calls[c].session].readyToGenerate
          /\ Len(sessionObjects[calls[c].session].conversationHistory) >= 1
          /\ sessionObjects[calls[c].session].gameRequirements = "unset"
    /\ effects = NoEffects

\* Call c is made in this step, as a processUserMessage call.
ProcessUserMessageCalled(c) == NextCall(c) /\ calls'[c].kind = "processUserMessage"

\* processUserMessage call c resumes after its await in this step, having
\* received the answer calls[c].aiResponse, and returns.
ProcessUserMessageResumed(c) ==
    /\ calls[c].kind = "processUserMessage"
    /\ calls[c].pc = "reply"
    /\ calls'[c].pc = "done"

\* The answer of the model carries metadata that can be parsed.
Parseable(aiResponse) == ~aiResponse.failed /\ aiResponse.block = "object"

\* C30: processUserMessage changes collectedInfo, infoCompleteness and
\* readyToGenerate only from metadata parsed out of the AI reply.  When the
\* AI call failed or the reply holds no parseable metadata the three fields
\* are unchanged; readyToGenerate changes only when the metadata holds a
\* boolean readyToGenerate; apart from the three fields only
\* conversationHistory and lastUpdated of that session change.  On an
\* unknown sessionId the call returns success: false and creates no session.
C30_StateOnlyFromParsedMetadata ==
    [][\A c \in CallIds :
          /\ ProcessUserMessageResumed(c) =>
                LET aiResponse == calls[c].aiResponse
                    before == sessionObjects[calls[c].session]
                    after == sessionObjects'[calls[c].session]
                IN  /\ ~Parseable(aiResponse) =>
                          /\ after.collectedInfo = before.collectedInfo
                          /\ after.infoCompleteness = before.infoCompleteness
                          /\ after.readyToGenerate = before.readyToGenerate
                    /\ after.readyToGenerate # before.readyToGenerate =>
                          /\ Parseable(aiResponse)
                          /\ aiResponse.readyToGenerate \in {"true", "false"}
                    /\ after.collectedInfo \subseteq
                          before.collectedInfo \cup {aiResponse.collectedInfo}
                    /\ after.id = before.id
                    /\ after.gameRequirements = before.gameRequirements
                    /\ after.stage = before.stage
                    /\ \A o \in CallIds \ {calls[c].session} :
                          sessionObjects'[o] = sessionObjects[o]
                    /\ UNCHANGED << activeSessions, effects >>
          /\ (ProcessUserMessageCalled(c) /\ activeSessions[calls'[c].sessionId] = 0) =>
                /\ calls'[c].pc = "done"
                /\ calls'[c].success = "false"
                /\ UNCHANGED << activeSessions, sessionObjects >>]_vars

\* One processUserMessage call was refused for an unknown sessionId; another
\* went through on a session although the AI call failed: it returned the
\* apology, left the three fields as startNewSession made them and added
\* the user message and the reply to the history.
C30_Witness ==
    /\ \E c \in CallIds :
          /\ calls[c].kind = "processUserMessage" /\ calls[c].session = 0
          /\ calls[c].pc = "done" /\ calls[c].success = "false"
    /\ \E c \in CallIds :
          /\ calls[c].kind = "processUserMessage" /\ calls[c].session # 0
          /\ calls[c].pc = "done" /\ calls[c].success = "true"
          /\ calls[c].message = "apology"
          /\ LET session == sessionObjects[calls[c].session]
             IN  /\ session.collectedInfo = {}
                 /\ session.infoCompleteness = 0
                 /\ ~session.readyToGenerate
                 /\ session.lastUpdated = 1
                 /\ session.conversationHistory =
                        << << "assistant", 0 >>, << "user", c >>, << "assistant", c >> >>

====
